---- MODULE Spec2Model ----
(***************************************************************************)
(* A model of delharc: the LHA/LZH header parser, the bit stream, the ring *)
(* buffer, the decoders and the top-level LhaDecodeReader.                 *)
(*                                                                         *)
(* Bytes are naturals 0..255.  A machine word (BitBuf = usize, 64 bits) is *)
(* a sequence of BITBUF_BITSIZE bits, most significant bit first, because  *)
(* 32-bit integers are narrower than the word.  A byte source is           *)
(* the slice reader of stub_io.rs: the bytes not read yet.                 *)
(***************************************************************************)
EXTENDS Integers, Sequences, FiniteSets, TLC

\* ------------------------------------------------------------------------
\* Bit arithmetic on naturals below 2^31 (the `&`, `|`, `^` of the source).
\* ------------------------------------------------------------------------
Min(a, b) == IF a <= b THEN a ELSE b

\* 2^n
Pow2(n) == 2 ^ n

\* The value of a bit sequence read most significant bit first.
RECURSIVE BitsVal(_)
BitsVal(s) ==
    IF Len(s) = 0 THEN 0
    ELSE IF Len(s) = 1 THEN s[1]
    ELSE LET h == Len(s) \div 2 IN
         (BitsVal(SubSeq(s, 1, h)) * Pow2(Len(s) - h)) + BitsVal(SubSeq(s, h + 1, Len(s)))

\* bit k (of weight 2^k) of a natural
NatBit(a, k) == (a \div Pow2(k)) % 2

\* a value named for the expression that uses it
Bind(value, K(_)) == K(value)

\* a function written out as the table of its values
Tabulated(f) == f @@ <<>>

\* the three operations on 4-bit digits, tabulated
DigitAnd == Tabulated([x \in 0..15 |-> Tabulated([y \in 0..15 |->
                  (8 * (NatBit(x, 3) * NatBit(y, 3))) + (4 * (NatBit(x, 2) * NatBit(y, 2)))
                + (2 * (NatBit(x, 1) * NatBit(y, 1))) + (NatBit(x, 0) * NatBit(y, 0))])])
DigitXor == Tabulated([x \in 0..15 |-> Tabulated([y \in 0..15 |->
                  (8 * ((NatBit(x, 3) + NatBit(y, 3)) % 2)) + (4 * ((NatBit(x, 2) + NatBit(y, 2)) % 2))
                + (2 * ((NatBit(x, 1) + NatBit(y, 1)) % 2)) + ((NatBit(x, 0) + NatBit(y, 0)) % 2)])])
DigitOr == Tabulated([x \in 0..15 |-> Tabulated([y \in 0..15 |->
                  DigitXor[x][y] + DigitAnd[x][y]])])

\* digit k (of weight 16^k) of a natural
Digit(a, k) == (a \div (16 ^ k)) % 16

\* an operation on naturals below 2^31, digit by digit
Digitwise(table, a, b) ==
      table[Digit(a, 0)][Digit(b, 0)]
    + (16 * table[Digit(a, 1)][Digit(b, 1)])
    + (256 * table[Digit(a, 2)][Digit(b, 2)])
    + (4096 * table[Digit(a, 3)][Digit(b, 3)])
    + (65536 * table[Digit(a, 4)][Digit(b, 4)])
    + (1048576 * table[Digit(a, 5)][Digit(b, 5)])
    + (16777216 * table[Digit(a, 6)][Digit(b, 6)])
    + (268435456 * table[Digit(a, 7)][Digit(b, 7)])

BitAnd(a, b) == Digitwise(DigitAnd, a, b)

BitOr(a, b) == Digitwise(DigitOr, a, b)

BitXor(a, b) == Digitwise(DigitXor, a, b)

\* The 8 bits of a byte, most significant first.
ByteBits(b) == [i \in 1..8 |-> (b \div Pow2(8 - i)) % 2]

Zeros(n) == [i \in 1..n |-> 0]

\* ------------------------------------------------------------------------
\* crc.rs is not among the sources: CRC-16/ARC as section 4.1 of the
\* specification describes it (reflected polynomial 0xA001, initial 0).
\* ------------------------------------------------------------------------
CRC_POLY == 40961

Crc16_shift(crc) == IF crc % 2 = 1 THEN BitXor(crc \div 2, CRC_POLY) ELSE crc \div 2

\* a byte's 8 bits shifted out
Crc16_shift8(crc) ==
    Crc16_shift(Crc16_shift(Crc16_shift(Crc16_shift(
        Crc16_shift(Crc16_shift(Crc16_shift(Crc16_shift(crc))))))))

\* the 8 shifts of each value of the low byte, tabulated
Crc16_table == Tabulated([b \in 0..255 |-> Crc16_shift8(b)])

\* one byte folded into the state: the 8 shifts of crc ^ byte
Crc16_update(crc, byte) == BitXor(crc \div 256, Crc16_table[BitXor(crc % 256, byte)])

\* the bytes are digested in order, the first half before the second
RECURSIVE Crc16_digest(_, _)
Crc16_digest(crc, bytes) ==
    IF Len(bytes) = 0 THEN crc
    ELSE IF Len(bytes) = 1 THEN Crc16_update(crc, bytes[1])
    ELSE LET h == Len(bytes) \div 2 IN
             Bind(Crc16_digest(crc, SubSeq(bytes, 1, h)), LAMBDA a :
          IF a >= 0 THEN Crc16_digest(a, SubSeq(bytes, h + 1, Len(bytes))) ELSE a)

Crc16_default == 0

\* ------------------------------------------------------------------------
\* stub_io.rs: the byte source R and the Take limiter.
\* A source is [id, buf, good]: buf holds the bytes not read yet; good is
\* the number of bytes the device still delivers before a read fails with
\* an I/O error (NoFault: it never fails, as the slice reader).
\* ------------------------------------------------------------------------
NoFault == 0 - 1

Src_read_all(s, len) ==
    Bind(Min(len, Len(s.buf)), LAMBDA amt :
    IF s.good # NoFault /\ amt > s.good
    THEN [s |-> [s EXCEPT !.buf = SubSeq(s.buf, s.good + 1, Len(s.buf)), !.good = 0],
          st |-> "Io(Fault)", bytes |-> <<>>]
    ELSE [s |-> [s EXCEPT !.buf = SubSeq(s.buf, amt + 1, Len(s.buf)),
                          !.good = IF s.good = NoFault THEN NoFault ELSE s.good - amt],
          st |-> "Ok", bytes |-> SubSeq(s.buf, 1, amt)])

Src_read_exact(s, len) ==
    IF len > Len(s.buf)
    THEN [s |-> s, st |-> "Io(UnexpectedEof)", bytes |-> <<>>]
    ELSE Src_read_all(s, len)

Read_take(s, limit) == [limit |-> limit, inner |-> s]

\* Take::read_all had it passed the whole buffer on: the limit not applied
\* to the length read
Take_read_all_unlimited(t, len) ==
    IF t.limit = 0 THEN [t |-> t, st |-> "Ok", bytes |-> <<>>]
    ELSE Bind(Src_read_all(t.inner, len), LAMBDA r :
         IF r.st # "Ok"
         THEN [t |-> [t EXCEPT !.inner = r.s], st |-> r.st, bytes |-> <<>>]
         ELSE [t |-> [limit |-> IF t.limit >= Len(r.bytes) THEN t.limit - Len(r.bytes) ELSE 0,
                      inner |-> r.s],
               st |-> "Ok", bytes |-> r.bytes])

Take_read_all(t, len) ==
    IF t.limit = 0 THEN [t |-> t, st |-> "Ok", bytes |-> <<>>]
    ELSE Bind(Min(len, t.limit), LAMBDA max :
             Bind(Src_read_all(t.inner, max), LAMBDA r :
          IF r.st # "Ok"
            THEN [t |-> [t EXCEPT !.inner = r.s], st |-> r.st, bytes |-> <<>>]
            ELSE [t |-> [limit |-> t.limit - Len(r.bytes), inner |-> r.s],
                  st |-> "Ok", bytes |-> r.bytes]))

Take_read_exact(t, len) ==
    IF len > t.limit THEN [t |-> t, st |-> "Io(UnexpectedEof)", bytes |-> <<>>]
    ELSE Bind(Src_read_exact(t.inner, len), LAMBDA r :
         IF r.st # "Ok"
         THEN [t |-> [t EXCEPT !.inner = r.s], st |-> r.st, bytes |-> <<>>]
         ELSE [t |-> [limit |-> t.limit - len, inner |-> r.s],
               st |-> "Ok", bytes |-> r.bytes])

\* discard_to_end had it read into the sink once, without the loop
discard_once(t, BUF) ==
    Bind(Take_read_all(t, BUF), LAMBDA r : [t |-> r.t, st |-> r.st])

\* while 0 != rd.read_all(buf)? {}
RECURSIVE discard_to_end(_, _)
discard_to_end(t, BUF) ==
    Bind(Take_read_all(t, BUF), LAMBDA r :
    IF r.st # "Ok" THEN [t |-> r.t, st |-> r.st]
    ELSE IF Len(r.bytes) = 0 THEN [t |-> r.t, st |-> "Ok"]
    ELSE discard_to_end(r.t, BUF))

\* ------------------------------------------------------------------------
\* bitstream.rs
\* ------------------------------------------------------------------------
BITBUF_BYTESIZE == 8
BITBUF_BITSIZE == BITBUF_BYTESIZE * 8

\* 1 << k as a word
WordBit(k) == [i \in 1..BITBUF_BITSIZE |-> IF i = BITBUF_BITSIZE - k THEN 1 ELSE 0]
\* w << n
WordShl(w, n) == [i \in 1..BITBUF_BITSIZE |-> IF i + n <= BITBUF_BITSIZE THEN w[i + n] ELSE 0]
\* a | b on bit sequences of one length
SeqOr(a, b) == [i \in 1..Len(a) |-> IF a[i] = 1 \/ b[i] = 1 THEN 1 ELSE 0]

trailing_zeros(w) ==
    LET ones == {i \in 1..Len(w) : w[i] = 1} IN
    IF ones = {} THEN Len(w)
    ELSE Len(w) - (CHOOSE i \in ones : \A j \in ones : j <= i)

\* res with its lowest set bit left in
KeepLowestBit(res) == res

\* res & res - 1: the lowest set bit cleared
ClearLowestBit(res) ==
    Bind(trailing_zeros(res), LAMBDA tz :
    [i \in 1..Len(res) |-> IF i = Len(res) - tz THEN 0 ELSE res[i]])

\* BitBuf::from_be_bytes of a buffer the bytes read fill from its start
from_be_bytes(bytes) ==
    [i \in 1..BITBUF_BITSIZE |->
        IF (i - 1) \div 8 < Len(bytes) THEN ByteBits(bytes[((i - 1) \div 8) + 1])[((i - 1) % 8) + 1]
        ELSE 0]

BitStream_new(inner) == [inner |-> inner, bits_buf |-> WordBit(BITBUF_BITSIZE - 1)]

RECURSIVE read_exact_or_to_end(_, _)
read_exact_or_to_end(t, len) ==
    IF len = 0 THEN [t |-> t, st |-> "Ok", bytes |-> <<>>]
    ELSE Bind(Take_read_all(t, len), LAMBDA r :
         IF r.st # "Ok" THEN r
         ELSE IF Len(r.bytes) = 0 THEN r
         ELSE Bind(read_exact_or_to_end(r.t, len - Len(r.bytes)), LAMBDA more :
              IF more.st # "Ok" THEN more
              ELSE [t |-> more.t, st |-> "Ok", bytes |-> r.bytes \o more.bytes]))

next_bits(bs, n) ==
    Bind(BITBUF_BITSIZE - trailing_zeros(bs.bits_buf) - 1, LAMBDA have_bits :
        LET res == SubSeq(bs.bits_buf, 1, n) IN
    IF n <= have_bits
    THEN [bs |-> [bs EXCEPT !.bits_buf = WordShl(bs.bits_buf, n)], st |-> "Ok", bits |-> res]
    ELSE
      LET missing_bits == n - have_bits IN
          Bind(read_exact_or_to_end(bs.inner, BITBUF_BYTESIZE), LAMBDA rd :
          LET bits_read == 8 * Len(rd.bytes) IN
          Bind(from_be_bytes(rd.bytes), LAMBDA new_bits :
      IF rd.st # "Ok"
      THEN [bs |-> [bs EXCEPT !.inner = rd.t], st |-> rd.st, bits |-> <<>>]
      ELSE IF bits_read < missing_bits
      THEN [bs |-> [bs EXCEPT !.inner = rd.t], st |-> "Io(UnexpectedEof)", bits |-> <<>>]
      ELSE [bs |-> [inner |-> rd.t,
                    bits_buf |-> SeqOr(IF missing_bits = BITBUF_BITSIZE
                                       THEN Zeros(BITBUF_BITSIZE)
                                       ELSE WordShl(new_bits, missing_bits),
                                       WordBit(BITBUF_BITSIZE - 1 - (bits_read - missing_bits)))],
            st |-> "Ok",
            bits |-> SeqOr(ClearLowestBit(res),
                           Zeros(n - missing_bits) \o SubSeq(new_bits, 1, missing_bits))])))

read_bit(bs) == next_bits(bs, 1)

\* read_bits::<T>(n) with n within the width of T
read_bits(bs, n) ==
    IF n = 0 THEN [bs |-> bs, st |-> "Ok", bits |-> <<>>]
    ELSE next_bits(bs, n)

\* ------------------------------------------------------------------------
\* ringbuf.rs.  The buffer array is kept as its initial contents (base)
\* overlaid with the cells written since (mem).
\* ------------------------------------------------------------------------
SPACE == 32

\* The ring Lz5Decoder::new leaves behind, cell by cell.
Lz5InitialByte(k) ==
    IF k < 3328 THEN k \div 13
    ELSE IF k < 3584 THEN k - 3328
    ELSE IF k < 3840 THEN 255 - (k - 3584)
    ELSE IF k < 3968 THEN 0
    ELSE IF k < 4078 THEN SPACE
    ELSE 0

Ring_default(size) == [size |-> size, cursor |-> 0, base |-> "spaces", mem |-> <<>>]

Ring_index(r, i) ==
    LET k == i % r.size IN
    IF k \in DOMAIN r.mem THEN r.mem[k]
    ELSE IF r.base = "lz5" THEN Lz5InitialByte(k) ELSE SPACE

Ring_set_cursor(r, pos) == [r EXCEPT !.cursor = pos % r.size]

Ring_push(r, byte) ==
    LET index == r.cursor % r.size IN
    [r EXCEPT !.mem = [x \in (DOMAIN r.mem) \cup {index} |-> IF x = index THEN byte ELSE r.mem[x]],
              !.cursor = (r.cursor + 1) % r.size]

\* the index of the cursor less the offset, without the 1
iter_from_offset_at_cursor(r, offset) == r.cursor + r.size - (offset % r.size)

iter_from_offset(r, offset) == r.cursor + r.size - ((offset % r.size) + 1)

iter_from_pos(r, pos) == pos % r.size

\* k calls of HistoryIter::next from index: the bytes yielded and the ring after
\* (the first half of the calls, then the second)
RECURSIVE HistoryIter_take(_, _, _)
HistoryIter_take(r, index, k) ==
    IF k <= 0 THEN [ring |-> r, bytes |-> <<>>]
    ELSE IF k = 1
    THEN Bind(Ring_index(r, index), LAMBDA res : [ring |-> Ring_push(r, res), bytes |-> <<res>>])
    ELSE LET h == k \div 2 IN
             Bind(HistoryIter_take(r, index, h), LAMBDA a :
             Bind(HistoryIter_take(a.ring, index + h, k - h), LAMBDA b :
          IF Len(a.bytes) = h THEN [ring |-> b.ring, bytes |-> a.bytes \o b.bytes] ELSE a))

\* ------------------------------------------------------------------------
\* decode/lzs.rs
\* ------------------------------------------------------------------------
LZS_RING_BUFFER_SIZE == 2048
LZS_START_OFFSET == 0 - 17

Lzs_new(rd) ==
    [kind |-> "Lzs",
     bit_reader |-> BitStream_new(rd),
     copy_progress |-> <<>>,
     ringbuf |-> Ring_set_cursor(Ring_default(LZS_RING_BUFFER_SIZE), LZS_START_OFFSET)]

\* copy_from_history had it stashed the position the copy began at
Lzs_copy_from_history_stale(d, room, pos, count) ==
    Bind(Min(room, count), LAMBDA real_count :
    Bind(HistoryIter_take(d.ringbuf, iter_from_pos(d.ringbuf, pos), real_count), LAMBDA h :
    [d |-> [d EXCEPT !.ringbuf = h.ring,
                     !.copy_progress =
                         IF (count - real_count) % 65536 = 0 THEN <<>>
                         ELSE <<pos, (count - real_count) % 65536>>],
     bytes |-> h.bytes]))

\* room is target.len()
Lzs_copy_from_history(d, room, pos, count) ==
    Bind(Min(room, count), LAMBDA real_count :
        Bind(HistoryIter_take(d.ringbuf, iter_from_pos(d.ringbuf, pos), real_count), LAMBDA h :
     [d |-> [d EXCEPT !.ringbuf = h.ring,
                        !.copy_progress =
                            IF (count - real_count) % 65536 = 0 THEN <<>>
                            ELSE <<(pos + real_count) % 65536, (count - real_count) % 65536>>],
        bytes |-> h.bytes]))

\* the while loop of fill_buffer; out holds the slots of buf filled so far
RECURSIVE Lzs_loop(_, _, _)
Lzs_loop(d, out, buflen) ==
    IF Len(out) >= buflen THEN [d |-> d, st |-> "Ok", out |-> out]
    ELSE
      Bind(read_bit(d.bit_reader), LAMBDA b :
      IF b.st # "Ok" THEN [d |-> [d EXCEPT !.bit_reader = b.bs], st |-> b.st, out |-> out]
      ELSE IF b.bits[1] = 1
      THEN Bind(read_bits(b.bs, 8), LAMBDA v :
           IF v.st # "Ok" THEN [d |-> [d EXCEPT !.bit_reader = v.bs], st |-> v.st, out |-> out]
           ELSE Lzs_loop([d EXCEPT !.bit_reader = v.bs,
                                   !.ringbuf = Ring_push(d.ringbuf, BitsVal(v.bits))],
                         Append(out, BitsVal(v.bits)), buflen))
      ELSE Bind(read_bits(b.bs, 11), LAMBDA p :
           IF p.st # "Ok" THEN [d |-> [d EXCEPT !.bit_reader = p.bs], st |-> p.st, out |-> out]
           ELSE Bind(read_bits(p.bs, 4), LAMBDA c :
                IF c.st # "Ok"
                THEN [d |-> [d EXCEPT !.bit_reader = c.bs], st |-> c.st, out |-> out]
                ELSE Bind(Lzs_copy_from_history([d EXCEPT !.bit_reader = c.bs],
                                                     buflen - Len(out),
                                                     BitsVal(p.bits), BitsVal(c.bits) + 2), LAMBDA cp :
                      Lzs_loop(cp.d, out \o cp.bytes, buflen)))))

Lzs_fill_buffer(d, buflen) ==
    Bind(IF d.copy_progress # <<>>
                 THEN Lzs_copy_from_history(d, buflen, d.copy_progress[1], d.copy_progress[2])
                 ELSE [d |-> d, bytes |-> <<>>], LAMBDA start :
     Lzs_loop(start.d, start.bytes, buflen))

\* ------------------------------------------------------------------------
\* decode/lz5.rs
\* ------------------------------------------------------------------------
LZ5_RING_BUFFER_SIZE == 4096
LZ5_START_OFFSET == 0 - 18

Lz5_new(reader) ==
    [kind |-> "Lz5",
     reader |-> reader,
     bitmap |-> 1,
     copy_progress |-> <<>>,
     ringbuf |-> Ring_set_cursor([Ring_default(LZ5_RING_BUFFER_SIZE) EXCEPT !.base = "lz5"],
                                 LZ5_START_OFFSET)]

Lz5_copy_from_history(d, room, pos, count) ==
    Bind(Min(room, count), LAMBDA real_count :
        Bind(HistoryIter_take(d.ringbuf, iter_from_pos(d.ringbuf, pos), real_count), LAMBDA h :
     [d |-> [d EXCEPT !.ringbuf = h.ring,
                        !.copy_progress =
                            IF (count - real_count) % 65536 = 0 THEN <<>>
                            ELSE <<(pos + real_count) % 65536, (count - real_count) % 65536>>],
        bytes |-> h.bytes]))

\* the while loop of fill_buffer; bitmap is the local copy, stored on Ok only
RECURSIVE Lz5_loop(_, _, _, _)
Lz5_loop(d, bitmap, out, buflen) ==
    IF Len(out) >= buflen THEN [d |-> [d EXCEPT !.bitmap = bitmap], st |-> "Ok", out |-> out]
    ELSE
      Bind(IF bitmap = 1 THEN Take_read_exact(d.reader, 1)
                ELSE [t |-> d.reader, st |-> "Ok", bytes |-> <<>>], LAMBDA bm :
      IF bm.st # "Ok" THEN [d |-> [d EXCEPT !.reader = bm.t], st |-> bm.st, out |-> out]
      ELSE
        Bind(IF bitmap = 1 THEN BitOr(bm.bytes[1], 256) ELSE bitmap, LAMBDA bitmap1 :
        IF bitmap1 % 2 = 1
        THEN Bind(Take_read_exact(bm.t, 1), LAMBDA v :
             IF v.st # "Ok" THEN [d |-> [d EXCEPT !.reader = v.t], st |-> v.st, out |-> out]
             ELSE Lz5_loop([d EXCEPT !.reader = v.t,
                                     !.ringbuf = Ring_push(d.ringbuf, v.bytes[1])],
                           bitmap1 \div 2, Append(out, v.bytes[1]), buflen))
        ELSE Bind(Take_read_exact(bm.t, 2), LAMBDA cmd :
             IF cmd.st # "Ok"
             THEN [d |-> [d EXCEPT !.reader = cmd.t], st |-> cmd.st, out |-> out]
             ELSE LET lo == cmd.bytes[1]
                      hi == cmd.bytes[2] IN
                      Bind(BitOr(BitAnd(hi, 240) * 16, lo), LAMBDA pos :
                      Bind(BitAnd(hi, 15), LAMBDA count :
                      Bind(Lz5_copy_from_history([d EXCEPT !.reader = cmd.t],
                                                  buflen - Len(out), pos, count + 3), LAMBDA cp :
                   Lz5_loop(cp.d, bitmap1 \div 2, out \o cp.bytes, buflen)))))))

\* fill_buffer with a bitmap that every call starts anew
Lz5_fill_buffer_fresh(d, buflen) ==
    Bind(IF d.copy_progress # <<>>
                 THEN Lz5_copy_from_history(d, buflen, d.copy_progress[1], d.copy_progress[2])
                 ELSE [d |-> d, bytes |-> <<>>], LAMBDA start :
     Lz5_loop(start.d, 1, start.bytes, buflen))

Lz5_fill_buffer(d, buflen) ==
    Bind(IF d.copy_progress # <<>>
                 THEN Lz5_copy_from_history(d, buflen, d.copy_progress[1], d.copy_progress[2])
                 ELSE [d |-> d, bytes |-> <<>>], LAMBDA start :
     Lz5_loop(start.d, d.bitmap, start.bytes, buflen))

\* ------------------------------------------------------------------------
\* decode.rs: PassthroughDecoder and UnsupportedDecoder
\* ------------------------------------------------------------------------
Passthrough_new(inner) == [kind |-> "Passthrough", inner |-> inner]

Passthrough_fill_buffer(d, buflen) ==
    Bind(Take_read_exact(d.inner, buflen), LAMBDA r :
    [d |-> [d EXCEPT !.inner = r.t], st |-> r.st, out |-> r.bytes])

Unsupported_new(inner) == [kind |-> "Unsupported", inner |-> inner]

\* UnsupportedDecoder::fill_buffer had it accepted an empty buffer
Unsupported_fill_buffer_lenient(d, buflen) ==
    IF buflen = 0 THEN [d |-> d, st |-> "Ok", out |-> <<>>]
    ELSE [d |-> d, st |-> "Decompress(unsupported compression method)", out |-> <<>>]

Unsupported_fill_buffer(d, buflen) ==
    [d |-> d, st |-> "Decompress(unsupported compression method)", out |-> <<>>]

\* ------------------------------------------------------------------------
\* statictree/entry.rs: a TreeEntry is its u16
\* ------------------------------------------------------------------------
LEAF_BIT == 32768

TreeEntry_leaf(value) == IF value >= LEAF_BIT THEN value ELSE value + LEAF_BIT

is_leaf(entry) == entry >= LEAF_BIT

as_value(entry) == IF entry >= LEAF_BIT THEN entry - LEAF_BIT ELSE entry

\* ------------------------------------------------------------------------
\* decode/lhv1/dyntree.rs
\* A tree is [nodes, leaves, groups]; nodes and leaves are indexed from 0.
\* ------------------------------------------------------------------------
REORDER_LIMIT == 32768
NUM_LEAVES == 314
NUM_NODES == NUM_LEAVES * 2 - 1

Groups_new ==
    [ngroups |-> 0,
     groups |-> [i \in 0..(NUM_NODES - 1) |-> i],
     leaders |-> [i \in 0..(NUM_NODES - 1) |-> 0]]

Groups_reset(g) == [g EXCEPT !.ngroups = 0, !.groups = [i \in 0..(NUM_NODES - 1) |-> i]]

Groups_allocate(g) == [g |-> [g EXCEPT !.ngroups = g.ngroups + 1], res |-> g.groups[g.ngroups]]

Groups_free(g, group) ==
    [g EXCEPT !.ngroups = g.ngroups - 1, !.groups[g.ngroups - 1] = group]

\* One turn of the for loop of new over the pairs of children of a level,
\* the j-th; c is [nodes, groups, last_group, last_freq].
DynHuffTree_new_pair(c, rest_len, head_end, j) ==
      LET child_index == rest_len - 1 - (2 * j)
          index == head_end - 1 - j
          freq == c.nodes[child_index - 1].freq + c.nodes[child_index].freq
          n1 == [c.nodes EXCEPT ![child_index - 1].parent = index,
                                ![child_index].parent = index]
          changed == freq # c.last_freq
          g1 == IF changed THEN [c.groups EXCEPT !.leaders[c.last_group] = index + 1]
                ELSE c.groups IN
          Bind(Groups_allocate(g1), LAMBDA al :
          LET last_group == IF changed THEN al.res ELSE c.last_group IN
       [nodes |-> [n1 EXCEPT ![index] = [entry |-> child_index, freq |-> freq,
                                           parent |-> 0, group |-> last_group]],
          groups |-> IF changed THEN al.g ELSE g1,
          last_group |-> last_group,
          last_freq |-> IF changed THEN freq ELSE c.last_freq])

\* the turns lo .. hi - 1 of that loop, in order
RECURSIVE DynHuffTree_new_pairs(_, _, _, _, _)
DynHuffTree_new_pairs(c, rest_len, head_end, lo, hi) ==
    IF hi <= lo THEN c
    ELSE IF hi - lo = 1 THEN DynHuffTree_new_pair(c, rest_len, head_end, lo)
    ELSE LET mid == (lo + hi) \div 2 IN
             Bind(DynHuffTree_new_pairs(c, rest_len, head_end, lo, mid), LAMBDA a :
          IF a.last_freq >= 0 THEN DynHuffTree_new_pairs(a, rest_len, head_end, mid, hi)
            ELSE a)

\* the while tail_len > 1 loop of new
RECURSIVE DynHuffTree_new_levels(_, _, _)
DynHuffTree_new_levels(c, rest_len, tail_len) ==
    IF tail_len <= 1 THEN c
    ELSE LET parent_len == tail_len \div 2
             head_len == rest_len - (parent_len * 2)
             head_end == head_len - (tail_len % 2) IN
             Bind(DynHuffTree_new_pairs(c, rest_len, head_end, 0, Min(parent_len, head_end)), LAMBDA a :
          IF a.last_freq >= 0
            THEN DynHuffTree_new_levels(a, head_len, tail_len - parent_len)
            ELSE a)

DynHuffTree_new ==
    Bind(Groups_allocate(Groups_new), LAMBDA al :
        Bind([i \in 0..(NUM_NODES - 1) |->
                    IF i >= NUM_NODES - NUM_LEAVES
                    THEN [entry |-> TreeEntry_leaf(NUM_NODES - 1 - i), freq |-> 1,
                          parent |-> 0, group |-> al.res]
                    ELSE [entry |-> 0, freq |-> 0, parent |-> 0, group |-> 0]], LAMBDA nodes :
        Bind(DynHuffTree_new_levels(
                [nodes |-> nodes, groups |-> al.g, last_group |-> al.res, last_freq |-> 0],
                NUM_NODES, NUM_LEAVES), LAMBDA c :
     [nodes |-> c.nodes,
        leaves |-> [value \in 0..(NUM_LEAVES - 1) |-> NUM_NODES - 1 - value],
        groups |-> c.groups])))

\* set_as_parent had it left the first child alone
set_as_parent_second(t, child_index, parent_index) ==
    [t EXCEPT !.nodes[child_index].parent = parent_index]

set_as_parent(t, child_index, parent_index) ==
    [t EXCEPT !.nodes[child_index - 1].parent = parent_index,
              !.nodes[child_index].parent = parent_index]

\* the match on an entry moved to node_index by promote_to_leader
DynHuffTree_moved(t, entry, node_index) ==
    IF is_leaf(entry) THEN [t EXCEPT !.leaves[as_value(entry)] = node_index]
    ELSE set_as_parent(t, entry, node_index)

promote_to_leader(t, node_index) ==
    LET leader_index == t.groups.leaders[t.nodes[node_index].group] IN
    IF leader_index = node_index THEN [t |-> t, index |-> node_index]
    ELSE LET entry == t.nodes[node_index].entry
             prev == t.nodes[leader_index].entry
             t1 == [t EXCEPT !.nodes[node_index].entry = prev,
                             !.nodes[leader_index].entry = entry] IN
             Bind(DynHuffTree_moved(t1, prev, node_index), LAMBDA t2 :
          [t |-> DynHuffTree_moved(t2, entry, leader_index), index |-> leader_index])

\* increment_frequency had it left the groups alone
increment_frequency_ungrouped(t, node_index) ==
    [t EXCEPT !.nodes[node_index].freq = @ + 1]

increment_frequency(t, node_index) ==
    LET prev == t.nodes[node_index - 1]
        node == t.nodes[node_index]
        freq == node.freq + 1 IN
        Bind(node_index + 1 < NUM_NODES /\ node.group = t.nodes[node_index + 1].group, LAMBDA shared :
        Bind(Groups_allocate([t.groups EXCEPT !.leaders[node.group] = @ + 1]), LAMBDA al :
    IF shared
    THEN IF freq = prev.freq
         THEN [t EXCEPT !.groups.leaders[node.group] = @ + 1,
                        !.nodes[node_index].freq = freq,
                        !.nodes[node_index].group = prev.group]
         ELSE [t EXCEPT !.groups = [al.g EXCEPT !.leaders[al.res] = node_index],
                        !.nodes[node_index].freq = freq,
                        !.nodes[node_index].group = al.res]
    ELSE IF freq = prev.freq
         THEN [t EXCEPT !.groups = Groups_free(t.groups, node.group),
                        !.nodes[node_index].freq = freq,
                        !.nodes[node_index].group = prev.group]
         ELSE [t EXCEPT !.nodes[node_index].freq = freq]))

\* One leaf moved back into the tree by rebuild_tree, at the node below
\* target_len; li is the position of next_leaf in leave_nodes (0: None).
rebuild_tree_put(c, leave_nodes) ==
    LET entry == leave_nodes[c.li][1]
        freq == leave_nodes[c.li][2]
        target_len == c.target_len - 1 IN
     [c EXCEPT !.t.leaves[as_value(entry)] = target_len,
                 !.t.nodes[target_len].entry = entry,
                 !.t.nodes[target_len].freq = freq,
                 !.target_len = target_len,
                 !.li = c.li - 1]

\* One step of the while nodes.len() > 2 loop of rebuild_tree: a leaf put
\* back or a branch inserted.  c is [t, li, target_len, nodes_len, more];
\* more is FALSE at the top of a turn and TRUE once the turn has its two
\* children.
\*   1. copy at least 2 more leaves if not enough children
\*   2. copy more leaves until frequency is less
\*   3. insert branch
\*   4. repeat until root
rebuild_tree_step(c, leave_nodes) ==
    IF c.nodes_len <= 2 THEN c
    ELSE IF ~c.more /\ c.nodes_len - c.target_len < 2 /\ c.target_len > 0
    THEN rebuild_tree_put(c, leave_nodes)
    ELSE Bind(c.t.nodes[c.nodes_len - 1].freq + c.t.nodes[c.nodes_len - 2].freq,
              LAMBDA branch_freq :
         IF c.li # 0 /\ ~(branch_freq < leave_nodes[c.li][2])
         THEN [rebuild_tree_put(c, leave_nodes) EXCEPT !.more = TRUE]
         ELSE [t |-> [c.t EXCEPT !.nodes[c.target_len - 1].entry = c.nodes_len - 1,
                                 !.nodes[c.target_len - 1].freq = branch_freq,
                                 !.nodes[c.nodes_len - 1].parent = c.target_len - 1,
                                 !.nodes[c.nodes_len - 2].parent = c.target_len - 1],
               li |-> c.li,
               target_len |-> c.target_len - 1,
               nodes_len |-> c.nodes_len - 2,
               more |-> FALSE])

\* fuel steps of that loop (the first half, then the second)
RECURSIVE rebuild_tree_loop(_, _, _)
rebuild_tree_loop(c, leave_nodes, fuel) ==
    IF fuel > 1
    THEN Bind(rebuild_tree_loop(c, leave_nodes, fuel \div 2), LAMBDA a :
         IF a.nodes_len > 2 THEN rebuild_tree_loop(a, leave_nodes, fuel - fuel \div 2)
         ELSE a)
    ELSE IF fuel <= 0 THEN c ELSE rebuild_tree_step(c, leave_nodes)

\* rebuild groups: the for loop over nodes[1..], for the nodes lo .. hi - 1;
\* c is [t, group, freq]
RECURSIVE rebuild_tree_groups(_, _, _)
rebuild_tree_groups(c, lo, hi) ==
    IF hi - lo > 1
    THEN Bind(rebuild_tree_groups(c, lo, (lo + hi) \div 2), LAMBDA a :
         IF a.freq >= 0 THEN rebuild_tree_groups(a, (lo + hi) \div 2, hi) ELSE a)
    ELSE IF hi <= lo THEN c
    ELSE IF c.t.nodes[lo].freq = c.freq
         THEN [c EXCEPT !.t.nodes[lo].group = c.group]
         ELSE Bind(Groups_allocate(c.t.groups), LAMBDA al :
              [t |-> [c.t EXCEPT !.groups = [al.g EXCEPT !.leaders[al.res] = lo],
                                 !.nodes[lo].group = al.res],
               group |-> al.res,
               freq |-> c.t.nodes[lo].freq])

rebuild_tree(t) ==
    Bind([i \in 1..NUM_NODES |-> t.nodes[i - 1]], LAMBDA all :
        Bind(SelectSeq(all, LAMBDA n : is_leaf(n.entry)), LAMBDA leafs :
        IF Len(leafs) < 0 THEN t ELSE
        LET leave_nodes == [i \in 1..Len(leafs) |-> <<leafs[i].entry, (leafs[i].freq + 1) \div 2>>] IN
        Bind(rebuild_tree_loop([t |-> t, li |-> Len(leave_nodes), target_len |-> NUM_NODES,
                                nodes_len |-> NUM_NODES, more |-> FALSE],
                               leave_nodes, NUM_NODES), LAMBDA c :
        IF c.nodes_len < 0 THEN t ELSE
        Bind(Groups_allocate(Groups_reset(c.t.groups)), LAMBDA al :
        IF al.res < 0 THEN t ELSE
        Bind([c.t EXCEPT !.groups = [al.g EXCEPT !.leaders[al.res] = 0],
                         !.nodes[0].group = al.res], LAMBDA t1 :
        IF t1.nodes[0].freq < 0 THEN t ELSE
     rebuild_tree_groups([t |-> t1, group |-> al.res, freq |-> t1.nodes[0].freq],
                           1, NUM_NODES).t)))))

\* the while node_index != 0 loop of increment_for_value
\* (one turn; c is [t, index])
increment_for_value_turn(c) ==
    IF c.index = 0 THEN c
    ELSE Bind(promote_to_leader(c.t, c.index), LAMBDA p :
         Bind(increment_frequency(p.t, p.index), LAMBDA t1 :
         [t |-> t1, index |-> t1.nodes[p.index].parent]))

\* (at most fuel turns: the first half, then the second)
RECURSIVE increment_for_value_turns(_, _)
increment_for_value_turns(c, fuel) ==
    IF fuel > 1
    THEN Bind(increment_for_value_turns(c, fuel \div 2), LAMBDA a :
         IF a.index = 0 THEN a ELSE increment_for_value_turns(a, fuel - fuel \div 2))
    ELSE increment_for_value_turn(c)

\* (all turns, 16 at a time)
RECURSIVE increment_for_value_walk(_, _)
increment_for_value_walk(t, node_index) ==
    IF node_index = 0 THEN t
    ELSE Bind(increment_for_value_turns([t |-> t, index |-> node_index], 16), LAMBDA a :
         IF a.index = 0 THEN a.t ELSE increment_for_value_walk(a.t, a.index))

\* increment_for_value without the rebuild at REORDER_LIMIT
increment_for_value_unlimited(t, value) ==
    LET t1 == [t EXCEPT !.nodes[0].freq = @ + 1] IN
    increment_for_value_walk(t1, t1.leaves[value])

increment_for_value(t, value) ==
    Bind(IF t.nodes[0].freq >= REORDER_LIMIT THEN rebuild_tree(t) ELSE t, LAMBDA t0 :
        LET t1 == [t0 EXCEPT !.nodes[0].freq = @ + 1] IN
     increment_for_value_walk(t1, t1.leaves[value]))

\* the loop of read_entry from the node at index
RECURSIVE DynHuffTree_read_entry_from(_, _, _)
DynHuffTree_read_entry_from(t, bs, index) ==
    LET entry == t.nodes[index].entry IN
    IF is_leaf(entry)
    THEN [t |-> t, bs |-> bs, st |-> "Ok", value |-> as_value(entry)]
    ELSE Bind(read_bits(bs, 1), LAMBDA b :
         IF b.st # "Ok" THEN [t |-> t, bs |-> b.bs, st |-> b.st, value |-> 0]
         ELSE DynHuffTree_read_entry_from(t, b.bs, entry - b.bits[1]))

\* the leaf is found, then counted
DynHuffTree_read_entry(t, bs) ==
    Bind(DynHuffTree_read_entry_from(t, bs, 0), LAMBDA r :
    IF r.st # "Ok" THEN r ELSE [r EXCEPT !.t = increment_for_value(t, r.value)])

\* ------------------------------------------------------------------------
\* decode/lhv1.rs
\* ------------------------------------------------------------------------
LH1_RING_BUFFER_SIZE == 4096

Lh1_new(rd) ==
    [kind |-> "Lh1",
     bit_reader |-> BitStream_new(rd),
     command_tree |-> DynHuffTree_new,
     copy_progress |-> <<>>,
     ringbuf |-> Ring_default(LH1_RING_BUFFER_SIZE)]

\* the match on the three highest bits only
decode_offset_coarse(bits9) ==
    Bind(BitAnd(bits9, 448), LAMBDA m :
    IF m <= 63 THEN <<bits9, 0>>
    ELSE IF m <= 159 THEN <<(bits9 - 32) * 2, 1>>
    ELSE IF m <= 287 THEN <<(bits9 - 96) * 4, 2>>
    ELSE IF m <= 383 THEN <<(bits9 - 192) * 8, 3>>
    ELSE IF m <= 479 THEN <<(bits9 - 288) * 16, 4>>
    ELSE <<(bits9 - 384) * 32, 5>>)

\* (incomplete offset, additional bits to read)
decode_offset(bits9) ==
    Bind(BitAnd(bits9, 480), LAMBDA m :
    IF m <= 63 THEN <<bits9, 0>>
    ELSE IF m <= 159 THEN <<(bits9 - 32) * 2, 1>>
    ELSE IF m <= 287 THEN <<(bits9 - 96) * 4, 2>>
    ELSE IF m <= 383 THEN <<(bits9 - 192) * 8, 3>>
    ELSE IF m <= 479 THEN <<(bits9 - 288) * 16, 4>>
    ELSE <<(bits9 - 384) * 32, 5>>)

Lh1_read_offset(bs) ==
    Bind(read_bits(bs, 9), LAMBDA b9 :
    IF b9.st # "Ok" THEN [bs |-> b9.bs, st |-> b9.st, offset |-> 0]
    ELSE Bind(decode_offset(BitsVal(b9.bits)), LAMBDA dec :
             Bind(read_bits(b9.bs, dec[2]), LAMBDA more :
          IF more.st # "Ok" THEN [bs |-> more.bs, st |-> more.st, offset |-> 0]
            ELSE [bs |-> more.bs, st |-> "Ok", offset |-> BitOr(dec[1], BitsVal(more.bits))])))

Lh1_copy_from_history(d, room, offset, count) ==
    Bind(count - Min(room, count), LAMBDA count_after :
        Bind(HistoryIter_take(d.ringbuf, iter_from_offset(d.ringbuf, offset), Min(room, count)), LAMBDA h :
     [d |-> [d EXCEPT !.ringbuf = h.ring,
                        !.copy_progress =
                            IF count_after % 65536 = 0 THEN <<>>
                            ELSE <<offset % 65536, count_after % 65536>>],
        bytes |-> h.bytes]))

RECURSIVE Lh1_loop(_, _, _)
Lh1_loop(d, out, buflen) ==
    IF Len(out) >= buflen THEN [d |-> d, st |-> "Ok", out |-> out]
    ELSE
      Bind(DynHuffTree_read_entry(d.command_tree, d.bit_reader), LAMBDA cmd :
          LET d1 == [d EXCEPT !.command_tree = cmd.t, !.bit_reader = cmd.bs] IN
      IF cmd.st # "Ok" THEN [d |-> d1, st |-> cmd.st, out |-> out]
      ELSE IF cmd.value <= 255
      THEN Lh1_loop([d1 EXCEPT !.ringbuf = Ring_push(d.ringbuf, cmd.value)],
                    Append(out, cmd.value), buflen)
      ELSE Bind(Lh1_read_offset(cmd.bs), LAMBDA o :
           IF o.st # "Ok" THEN [d |-> [d1 EXCEPT !.bit_reader = o.bs], st |-> o.st, out |-> out]
           ELSE Bind(Lh1_copy_from_history([d1 EXCEPT !.bit_reader = o.bs],
                                                buflen - Len(out), o.offset,
                                                cmd.value - 256 + 3), LAMBDA cp :
                 Lh1_loop(cp.d, out \o cp.bytes, buflen))))

Lh1_fill_buffer(d, buflen) ==
    Bind(IF d.copy_progress # <<>>
                 THEN Lh1_copy_from_history(d, buflen, d.copy_progress[1], d.copy_progress[2])
                 ELSE [d |-> d, bytes |-> <<>>], LAMBDA start :
     Lh1_loop(start.d, start.bytes, buflen))

\* ------------------------------------------------------------------------
\* statictree.rs: a HuffTree is the sequence of its entries (tree[i] of the
\* source is tree[i + 1] here).
\* ------------------------------------------------------------------------
MAX_INDEX == LEAF_BIT - 1

HuffTree_with_capacity == <<>>

set_single(value) == <<TreeEntry_leaf(value)>>

\* add missing branches: the k turns of the for _ in tree.len()..max_allocated
\* loop push the branches max_allocated, max_allocated + 2, ...
build_tree_branches(tree, max_allocated, k) ==
    IF k <= 0 THEN [tree |-> tree, max_allocated |-> max_allocated, st |-> "Ok"]
    ELSE IF max_allocated + (2 * (k - 1)) > MAX_INDEX
    THEN [tree |-> <<>>, max_allocated |-> max_allocated, st |-> "tree index out of range"]
    ELSE [tree |-> tree \o [i \in 1..k |-> max_allocated + (2 * (i - 1))],
          max_allocated |-> max_allocated + (2 * k), st |-> "Ok"]

\* the for current_len in 1u8.. loop
RECURSIVE build_tree_levels(_, _, _, _)
build_tree_levels(tree, max_allocated, current_len, value_lengths) ==
    Bind(build_tree_branches(tree, max_allocated, max_allocated - Len(tree)), LAMBDA br :
    IF br.st # "Ok" THEN [tree |-> br.tree, st |-> br.st]
    ELSE
      LET values == [i \in 1..Len(value_lengths) |-> i - 1]
          found == SelectSeq(values, LAMBDA v : value_lengths[v + 1] = current_len) IN
          Bind(br.tree \o [i \in 1..Len(found) |-> TreeEntry_leaf(found[i])], LAMBDA withLeaves :
          LET more_leaves == \E i \in 1..Len(value_lengths) : value_lengths[i] > current_len IN
      IF Len(withLeaves) > br.max_allocated THEN [tree |-> withLeaves, st |-> "too many leaves"]
      ELSE IF more_leaves
      THEN build_tree_levels(withLeaves, br.max_allocated, current_len + 1, value_lengths)
      ELSE IF Len(withLeaves) # br.max_allocated
      THEN [tree |-> withLeaves, st |-> "missing some leaves"]
      ELSE [tree |-> withLeaves, st |-> "Ok"]))

build_tree(tree, value_lengths) ==
    IF Len(value_lengths) > MAX_INDEX \div 2
    THEN [tree |-> tree, st |-> "too many code lengths"]
    ELSE build_tree_levels(<<>>, 1, 1, value_lengths)

\* the loop of read_entry from tree[index]; an index past the end of the
\* tree is an unchecked read ("UB")
\* a walk in which bit 1 selects the first child
RECURSIVE HuffTree_read_entry_from_flipped(_, _, _)
HuffTree_read_entry_from_flipped(tree, bs, index) ==
    IF index >= Len(tree) THEN [bs |-> bs, st |-> "UB", value |-> 0]
    ELSE LET node == tree[index + 1] IN
         IF is_leaf(node) THEN [bs |-> bs, st |-> "Ok", value |-> as_value(node)]
         ELSE Bind(read_bits(bs, 1), LAMBDA b :
              IF b.st # "Ok" THEN [bs |-> b.bs, st |-> b.st, value |-> 0]
              ELSE HuffTree_read_entry_from_flipped(tree, b.bs, node + 1 - b.bits[1]))

RECURSIVE HuffTree_read_entry_from(_, _, _)
HuffTree_read_entry_from(tree, bs, index) ==
    IF index >= Len(tree) THEN [bs |-> bs, st |-> "UB", value |-> 0]
    ELSE LET node == tree[index + 1] IN
         IF is_leaf(node) THEN [bs |-> bs, st |-> "Ok", value |-> as_value(node)]
         ELSE Bind(read_bits(bs, 1), LAMBDA b :
              IF b.st # "Ok" THEN [bs |-> b.bs, st |-> b.st, value |-> 0]
              ELSE HuffTree_read_entry_from(tree, b.bs, node + b.bits[1]))

HuffTree_read_entry(tree, bs) ==
    IF Len(tree) = 0 THEN [bs |-> bs, st |-> "Panic", value |-> 0]
    ELSE HuffTree_read_entry_from(tree, bs, 0)

\* ------------------------------------------------------------------------
\* decode/lhv2.rs
\* ------------------------------------------------------------------------
NUM_COMMANDS == 510
NUM_TEMP_CODELEN == 20

\* impl_lhav2_decoder!: HISTORY_BITS and OFFSET_BITS of a configuration
LhaDecoderConfig(kind) ==
    CASE kind = "Lh5" -> [HISTORY_BITS |-> 14, OFFSET_BITS |-> 4]
      [] kind = "Lh7" -> [HISTORY_BITS |-> 17, OFFSET_BITS |-> 5]
      [] kind = "Lhx" -> [HISTORY_BITS |-> 20, OFFSET_BITS |-> 5]

\* map_err(LhaError::Decompress) of a build_tree result
Decompress(msg) ==
    CASE msg = "Ok" -> "Ok"
      [] msg = "too many code lengths" -> "Decompress(too many code lengths)"
      [] msg = "tree index out of range" -> "Decompress(tree index out of range)"
      [] msg = "too many leaves" -> "Decompress(too many leaves)"
      [] msg = "missing some leaves" -> "Decompress(missing some leaves)"

\* new with a ring of 1 << HISTORY_BITS bytes
LhaV2Decoder_new_history_bits(kind, rd) ==
    [kind |-> kind,
     bit_reader |-> BitStream_new(rd),
     command_tree |-> HuffTree_with_capacity,
     offset_tree |-> HuffTree_with_capacity,
     remaining_commands |-> 0,
     copy_progress |-> <<>>,
     ringbuf |-> Ring_default(Pow2(LhaDecoderConfig(kind).HISTORY_BITS))]

LhaV2Decoder_new(kind, rd) ==
    [kind |-> kind,
     bit_reader |-> BitStream_new(rd),
     command_tree |-> HuffTree_with_capacity,
     offset_tree |-> HuffTree_with_capacity,
     remaining_commands |-> 0,
     copy_progress |-> <<>>,
     ringbuf |-> Ring_default(Pow2(LhaDecoderConfig(kind).HISTORY_BITS - 1))]

\* while self.bit_reader.read_bit()? { len = len.checked_add(1)... }
\* one turn of the while loop with an addition that wraps around
read_code_length_turn_wrapping(c) ==
    IF c.done THEN c
    ELSE Bind(read_bit(c.bs), LAMBDA b :
         IF b.st # "Ok" THEN [bs |-> b.bs, st |-> b.st, len |-> 0, done |-> TRUE]
         ELSE IF b.bits[1] = 0 THEN [bs |-> b.bs, st |-> "Ok", len |-> c.len, done |-> TRUE]
         ELSE [bs |-> b.bs, st |-> "Ok", len |-> (c.len + 1) % 256, done |-> FALSE])

\* one turn of while self.bit_reader.read_bit()? { len = len.checked_add(1)... };
\* c is [bs, st, len, done]
read_code_length_turn(c) ==
    IF c.done THEN c
    ELSE Bind(read_bit(c.bs), LAMBDA b :
         IF b.st # "Ok" THEN [bs |-> b.bs, st |-> b.st, len |-> 0, done |-> TRUE]
         ELSE IF b.bits[1] = 0 THEN [bs |-> b.bs, st |-> "Ok", len |-> c.len, done |-> TRUE]
         ELSE IF c.len = 255
              THEN [bs |-> b.bs, st |-> "Decompress(code length overflow)", len |-> 0,
                    done |-> TRUE]
         ELSE [bs |-> b.bs, st |-> "Ok", len |-> c.len + 1, done |-> FALSE])

\* (at most fuel turns: the first half, then the second)
RECURSIVE read_code_length_turns(_, _)
read_code_length_turns(c, fuel) ==
    IF fuel > 1
    THEN Bind(read_code_length_turns(c, fuel \div 2), LAMBDA a :
         IF a.done THEN a ELSE read_code_length_turns(a, fuel - fuel \div 2))
    ELSE read_code_length_turn(c)

\* (the loop ends within 256 turns: len is a u8)
read_code_length_more(bs, len) ==
    Bind(read_code_length_turns([bs |-> bs, st |-> "Ok", len |-> len, done |-> FALSE], 256),
         LAMBDA r : [bs |-> r.bs, st |-> r.st, len |-> r.len])

read_code_length(bs) ==
    Bind(read_bits(bs, 3), LAMBDA r :
    IF r.st # "Ok" THEN [bs |-> r.bs, st |-> r.st, len |-> 0]
    ELSE IF BitsVal(r.bits) = 7 THEN read_code_length_more(r.bs, 7)
    ELSE [bs |-> r.bs, st |-> "Ok", len |-> BitsVal(r.bits)])

read_code_skip(bs, skip_range) ==
    IF skip_range = 0 THEN [bs |-> bs, st |-> "Ok", skip |-> 1]
    ELSE Bind(read_bits(bs, IF skip_range = 1 THEN 4 ELSE 9), LAMBDA r :
         IF r.st # "Ok" THEN [bs |-> r.bs, st |-> r.st, skip |-> 0]
         ELSE [bs |-> r.bs, st |-> "Ok",
               skip |-> BitsVal(r.bits) + (IF skip_range = 1 THEN 3 ELSE 20)])

\* for p in code_lengths[from..to].iter_mut() { *p = self.read_code_length()? }
\* with from and to counted from 0
RECURSIVE read_code_lengths(_, _, _, _)
read_code_lengths(bs, code_lengths, from, to) ==
    IF from >= to THEN [bs |-> bs, st |-> "Ok", code_lengths |-> code_lengths]
    ELSE Bind(read_code_length(bs), LAMBDA r :
         IF r.st # "Ok" THEN [bs |-> r.bs, st |-> r.st, code_lengths |-> code_lengths]
         ELSE read_code_lengths(r.bs, [code_lengths EXCEPT ![from + 1] = r.len], from + 1, to))

read_temp_tree(d) ==
    Bind(read_bits(d.bit_reader, 5), LAMBDA n :
        Bind(BitsVal(n.bits), LAMBDA num_codes :
    IF n.st # "Ok" THEN [d |-> [d EXCEPT !.bit_reader = n.bs], st |-> n.st]
    ELSE IF num_codes = 0
    THEN Bind(read_bits(n.bs, 5), LAMBDA c :
         IF c.st # "Ok" THEN [d |-> [d EXCEPT !.bit_reader = c.bs], st |-> c.st]
         ELSE [d |-> [d EXCEPT !.bit_reader = c.bs, !.offset_tree = set_single(BitsVal(c.bits))],
               st |-> "Ok"])
    ELSE IF num_codes > NUM_TEMP_CODELEN
    THEN [d |-> [d EXCEPT !.bit_reader = n.bs],
          st |-> "Decompress(temporary codelen table has invalid size)"]
    ELSE
      Bind(read_code_lengths(n.bs, Zeros(NUM_TEMP_CODELEN), 0, Min(num_codes, 3)), LAMBDA first :
      IF first.st # "Ok" THEN [d |-> [d EXCEPT !.bit_reader = first.bs], st |-> first.st]
      ELSE
        Bind(read_bits(first.bs, 2), LAMBDA sk :
            Bind(BitsVal(sk.bits), LAMBDA skip :
        IF sk.st # "Ok" THEN [d |-> [d EXCEPT !.bit_reader = sk.bs], st |-> sk.st]
        ELSE IF 3 + skip > num_codes
        THEN [d |-> [d EXCEPT !.bit_reader = sk.bs], st |-> "Panic"]
        ELSE
          Bind(read_code_lengths(sk.bs, first.code_lengths, 3 + skip, num_codes), LAMBDA rest :
          IF rest.st # "Ok" THEN [d |-> [d EXCEPT !.bit_reader = rest.bs], st |-> rest.st]
          ELSE Bind(build_tree(d.offset_tree, SubSeq(rest.code_lengths, 1, num_codes)), LAMBDA bt :
               [d |-> [d EXCEPT !.bit_reader = rest.bs, !.offset_tree = bt.tree],
                st |-> Decompress(bt.st)])))))))

\* One entry read in the loops of read_command_tree; c is [bs, st,
\* code_lengths, index], index counting from 0.
read_command_length(c, offset_tree, num_codes) ==
    IF c.st # "Ok" \/ c.index >= num_codes THEN c
    ELSE Bind(HuffTree_read_entry(offset_tree, c.bs), LAMBDA e :
         IF e.st # "Ok" THEN [c EXCEPT !.bs = e.bs, !.st = e.st]
         ELSE IF e.value <= 2
         THEN Bind(read_code_skip(e.bs, e.value), LAMBDA sk :
              IF sk.st # "Ok" THEN [c EXCEPT !.bs = sk.bs, !.st = sk.st]
              ELSE [c EXCEPT !.bs = sk.bs, !.index = c.index + sk.skip])
         ELSE [c EXCEPT !.bs = e.bs,
                        !.code_lengths[c.index + 1] = (e.value - 2) % 256,
                        !.index = c.index + 1])

\* the 'outer loop of read_command_tree: at most fuel entries
RECURSIVE read_command_lengths(_, _, _, _)
read_command_lengths(c, offset_tree, num_codes, fuel) ==
    IF fuel <= 0 THEN c
    ELSE IF fuel = 1 THEN read_command_length(c, offset_tree, num_codes)
    ELSE LET h == fuel \div 2 IN
             Bind(read_command_lengths(c, offset_tree, num_codes, h), LAMBDA a :
          IF a.index >= 0 THEN read_command_lengths(a, offset_tree, num_codes, fuel - h)
            ELSE a)

read_command_tree(d) ==
    Bind(read_bits(d.bit_reader, 9), LAMBDA n :
        Bind(BitsVal(n.bits), LAMBDA num_codes :
    IF n.st # "Ok" THEN [d |-> [d EXCEPT !.bit_reader = n.bs], st |-> n.st]
    ELSE IF num_codes = 0
    THEN Bind(read_bits(n.bs, 9), LAMBDA c :
         IF c.st # "Ok" THEN [d |-> [d EXCEPT !.bit_reader = c.bs], st |-> c.st]
         ELSE [d |-> [d EXCEPT !.bit_reader = c.bs, !.command_tree = set_single(BitsVal(c.bits))],
               st |-> "Ok"])
    ELSE IF num_codes > NUM_COMMANDS
    THEN [d |-> [d EXCEPT !.bit_reader = n.bs],
          st |-> "Decompress(commands codelen table has invalid size)"]
    ELSE
      Bind(read_command_lengths([bs |-> n.bs, st |-> "Ok",
                                     code_lengths |-> Zeros(NUM_COMMANDS), index |-> 0],
                                    d.offset_tree, num_codes, num_codes), LAMBDA r :
      IF r.st # "Ok" THEN [d |-> [d EXCEPT !.bit_reader = r.bs], st |-> r.st]
      ELSE Bind(build_tree(d.command_tree, SubSeq(r.code_lengths, 1, num_codes)), LAMBDA bt :
           [d |-> [d EXCEPT !.bit_reader = r.bs, !.command_tree = bt.tree],
            st |-> Decompress(bt.st)]))))

read_offset_tree(d) ==
    Bind(LhaDecoderConfig(d.kind), LAMBDA C :
        Bind(read_bits(d.bit_reader, C.OFFSET_BITS), LAMBDA n :
        Bind(BitsVal(n.bits), LAMBDA num_codes :
    IF n.st # "Ok" THEN [d |-> [d EXCEPT !.bit_reader = n.bs], st |-> n.st]
    ELSE IF num_codes = 0
    THEN Bind(read_bits(n.bs, C.OFFSET_BITS), LAMBDA c :
         IF c.st # "Ok" THEN [d |-> [d EXCEPT !.bit_reader = c.bs], st |-> c.st]
         ELSE [d |-> [d EXCEPT !.bit_reader = c.bs, !.offset_tree = set_single(BitsVal(c.bits))],
               st |-> "Ok"])
    ELSE IF num_codes > C.HISTORY_BITS
    THEN [d |-> [d EXCEPT !.bit_reader = n.bs],
          st |-> "Decompress(offset codelen table has invalid size)"]
    ELSE
      Bind(read_code_lengths(n.bs, Zeros(NUM_TEMP_CODELEN), 0, num_codes), LAMBDA r :
      IF r.st # "Ok" THEN [d |-> [d EXCEPT !.bit_reader = r.bs], st |-> r.st]
      ELSE Bind(build_tree(d.offset_tree, SubSeq(r.code_lengths, 1, num_codes)), LAMBDA bt :
           [d |-> [d EXCEPT !.bit_reader = r.bs, !.offset_tree = bt.tree],
            st |-> Decompress(bt.st)])))))

begin_new_block(d) ==
    Bind(read_bits(d.bit_reader, 16), LAMBDA n :
    IF n.st # "Ok" THEN [d |-> [d EXCEPT !.bit_reader = n.bs], st |-> n.st]
    ELSE Bind(read_temp_tree([d EXCEPT !.bit_reader = n.bs,
                                           !.remaining_commands = BitsVal(n.bits)]), LAMBDA t :
          IF t.st # "Ok" THEN t
            ELSE Bind(read_command_tree(t.d), LAMBDA c :
                 IF c.st # "Ok" THEN c ELSE read_offset_tree(c.d))))

LhaV2_read_offset(d) ==
    Bind(HuffTree_read_entry(d.offset_tree, d.bit_reader), LAMBDA e :
    IF e.st # "Ok" THEN [bs |-> e.bs, st |-> e.st, offset |-> 0]
    ELSE IF e.value <= 1 THEN [bs |-> e.bs, st |-> "Ok", offset |-> e.value]
    ELSE IF e.value - 1 > 32 THEN [bs |-> e.bs, st |-> "Io(InvalidInput)", offset |-> 0]
    ELSE Bind(read_bits(e.bs, e.value - 1), LAMBDA r :
         IF r.st # "Ok" THEN [bs |-> r.bs, st |-> r.st, offset |-> 0]
         ELSE [bs |-> r.bs, st |-> "Ok", offset |-> BitsVal(r.bits) + Pow2(e.value - 1)]))

LhaV2_copy_from_history(d, room, offset, count) ==
    Bind(count - Min(room, count), LAMBDA count_after :
        Bind(HistoryIter_take(d.ringbuf, iter_from_offset(d.ringbuf, offset), Min(room, count)), LAMBDA h :
     [d |-> [d EXCEPT !.ringbuf = h.ring,
                        !.copy_progress =
                            IF count_after = 0 THEN <<>> ELSE <<offset, count_after>>],
        bytes |-> h.bytes]))

\* while self.remaining_commands == 0 { self.begin_new_block()?; }
RECURSIVE LhaV2_blocks(_)
LhaV2_blocks(d) ==
    IF d.remaining_commands # 0 THEN [d |-> d, st |-> "Ok"]
    ELSE Bind(begin_new_block(d), LAMBDA b :
         IF b.st # "Ok" THEN b ELSE LhaV2_blocks(b.d))

RECURSIVE LhaV2_loop(_, _, _)
LhaV2_loop(d, out, buflen) ==
    IF Len(out) >= buflen THEN [d |-> d, st |-> "Ok", out |-> out]
    ELSE
      Bind(LhaV2_blocks(d), LAMBDA blk :
      IF blk.st # "Ok" THEN [d |-> blk.d, st |-> blk.st, out |-> out]
      ELSE
        LET d1 == [blk.d EXCEPT !.remaining_commands = @ - 1] IN
            Bind(HuffTree_read_entry(d1.command_tree, d1.bit_reader), LAMBDA cmd :
            LET d2 == [d1 EXCEPT !.bit_reader = cmd.bs] IN
        IF cmd.st # "Ok" THEN [d |-> d2, st |-> cmd.st, out |-> out]
        ELSE IF cmd.value <= 255
        THEN LhaV2_loop([d2 EXCEPT !.ringbuf = Ring_push(d2.ringbuf, cmd.value)],
                        Append(out, cmd.value), buflen)
        ELSE Bind(LhaV2_read_offset(d2), LAMBDA o :
             IF o.st # "Ok" THEN [d |-> [d2 EXCEPT !.bit_reader = o.bs], st |-> o.st, out |-> out]
             ELSE Bind(LhaV2_copy_from_history([d2 EXCEPT !.bit_reader = o.bs],
                                                    buflen - Len(out), o.offset,
                                                    cmd.value - 256 + 3), LAMBDA cp :
                   LhaV2_loop(cp.d, out \o cp.bytes, buflen)))))

\* fill_buffer had it read the header of the next block as soon as the
\* commands of a block ran out
LhaV2_fill_buffer_eager(d, buflen) ==
    Bind(IF d.copy_progress # <<>>
         THEN LhaV2_copy_from_history(d, buflen, d.copy_progress[1], d.copy_progress[2])
         ELSE [d |-> d, bytes |-> <<>>], LAMBDA start :
    Bind(LhaV2_loop(start.d, start.bytes, buflen), LAMBDA r :
    IF r.st # "Ok" \/ r.d.remaining_commands # 0 \/ buflen = 0 THEN r
    ELSE Bind(LhaV2_blocks(r.d), LAMBDA b :
         IF b.st # "Ok" THEN r ELSE [r EXCEPT !.d = b.d])))

LhaV2_fill_buffer(d, buflen) ==
    Bind(IF d.copy_progress # <<>>
                 THEN LhaV2_copy_from_history(d, buflen, d.copy_progress[1], d.copy_progress[2])
                 ELSE [d |-> d, bytes |-> <<>>], LAMBDA start :
     LhaV2_loop(start.d, start.bytes, buflen))

\* ------------------------------------------------------------------------
\* header.rs, header/parser.rs
\* ------------------------------------------------------------------------
\* u16/u32/u64::from_le_bytes
RECURSIVE from_le_bytes(_)
from_le_bytes(bytes) ==
    IF Len(bytes) = 0 THEN 0 ELSE Head(bytes) + 256 * from_le_bytes(Tail(bytes))

MSDOS_ARCHIVE == 32

LhaHeader_default ==
    [level |-> 0,
     compression |-> <<0, 0, 0, 0, 0>>,
     compressed_size |-> 0,
     original_size |-> 0,
     filename |-> <<>>,
     msdos_attrs |-> MSDOS_ARCHIVE,
     last_modified |-> 0,
     os_type |-> 0,
     file_crc |-> 0,
     extended_area |-> <<>>,
     first_header_len |-> 0,
     extra_headers |-> <<>>]

\* A Parser is [rd, crc, csum, len].
RECURSIVE wrapping_csum(_, _)
wrapping_csum(init, data) ==
    IF Len(data) = 0 THEN init
    ELSE IF Len(data) = 1 THEN (init + data[1]) % 256
    ELSE LET h == Len(data) \div 2 IN
             Bind(wrapping_csum(init, SubSeq(data, 1, h)), LAMBDA a :
          IF a >= 0 THEN wrapping_csum(a, SubSeq(data, h + 1, Len(data))) ELSE a)

update_checksums_no_wrapping_sum(p, buf) ==
    [p EXCEPT !.len = p.len + Len(buf), !.crc = Crc16_digest(p.crc, buf)]

\* update_checksums had it called for the length and the CRC alone
update_checksums_unsummed(p, buf) ==
    [p EXCEPT !.len = p.len + Len(buf), !.crc = Crc16_digest(p.crc, buf)]

update_checksums(p, buf) ==
    [update_checksums_no_wrapping_sum(p, buf) EXCEPT !.csum = wrapping_csum(p.csum, buf)]

Parser_read_u8_or_none(p) ==
    Bind(Src_read_all(p.rd, 1), LAMBDA r :
    IF r.st # "Ok" THEN [p |-> [p EXCEPT !.rd = r.s], st |-> r.st, bytes |-> <<>>]
    ELSE IF Len(r.bytes) = 0 THEN [p |-> [p EXCEPT !.rd = r.s], st |-> "Ok", bytes |-> <<>>]
    ELSE [p |-> update_checksums_no_wrapping_sum([p EXCEPT !.rd = r.s], r.bytes),
          st |-> "Ok", bytes |-> r.bytes])

\* read_u8, read_u16, read_u32 are read_exact of 1, 2, 4 bytes
Parser_read_exact(p, n) ==
    Bind(Src_read_exact(p.rd, n), LAMBDA r :
    IF r.st # "Ok" THEN [p |-> [p EXCEPT !.rd = r.s], st |-> r.st, bytes |-> <<>>]
    ELSE [p |-> update_checksums([p EXCEPT !.rd = r.s], r.bytes), st |-> "Ok", bytes |-> r.bytes])

\* the allocation of the buffer is taken to succeed
read_limit_no_checksums(p, limit) ==
    Bind(Src_read_exact(p.rd, limit), LAMBDA r :
    [p |-> [p EXCEPT !.rd = r.s], st |-> r.st, bytes |-> r.bytes])

read_limit(p, limit) ==
    Bind(read_limit_no_checksums(p, limit), LAMBDA r :
    IF r.st # "Ok" THEN r
    ELSE [p |-> update_checksums(r.p, r.bytes), st |-> "Ok", bytes |-> r.bytes])

EXT_HEADER_COMMON == 0
EXT_HEADER_MSDOS_ATTRS == 64
EXT_HEADER_MSDOS_SIZE == 66
EXT_HEADER_EXT_ATTRS == 127

\* the match had it left the CRC field of the Common record as it was read
LhaHeader_read_extra_one_unzeroed(e, header, level) ==
    LET data == Tail(header) IN
        Bind(header[1] = EXT_HEADER_COMMON, LAMBDA isCommon :
        LET hasCrc == isCommon /\ Len(data) >= 2
        stored == header IN
        Bind(header[1] \in {EXT_HEADER_MSDOS_ATTRS, EXT_HEADER_EXT_ATTRS} /\ Len(data) >= 2, LAMBDA isAttrs :
        Bind(header[1] = EXT_HEADER_MSDOS_SIZE /\ level >= 2 /\ Len(data) >= 16, LAMBDA isSize :
    IF isCommon /\ e.header_crc # <<>>
    THEN [e |-> e, st |-> "HeaderParse(double common CRC-16 header)", next |-> 0]
    ELSE [e |-> [p |-> update_checksums_no_wrapping_sum(e.p, stored),
                 extra_headers |-> e.extra_headers \o stored,
                 msdos_attrs |-> IF isAttrs THEN from_le_bytes(SubSeq(data, 1, 2))
                                 ELSE e.msdos_attrs,
                 original_size |-> IF isSize THEN from_le_bytes(SubSeq(data, 9, 16))
                                   ELSE e.original_size,
                 compressed_size |-> IF isSize THEN from_le_bytes(SubSeq(data, 1, 8))
                                     ELSE e.compressed_size,
                 header_crc |-> IF hasCrc THEN <<from_le_bytes(SubSeq(data, 1, 2))>>
                                ELSE e.header_crc],
          st |-> "Ok",
          next |-> IF level = 3
                   THEN from_le_bytes(SubSeq(stored, Len(stored) - 3, Len(stored)))
                   ELSE from_le_bytes(SubSeq(stored, Len(stored) - 1, Len(stored)))])))

\* The match on one extra header just read; e is [p, extra_headers,
\* msdos_attrs, original_size, compressed_size, header_crc], header_crc
\* being <<>> for None.  Gives e with the header appended and the length of
\* the next extra header.
LhaHeader_read_extra_one(e, header, level) ==
    LET data == Tail(header) IN
        Bind(header[1] = EXT_HEADER_COMMON, LAMBDA isCommon :
        LET hasCrc == isCommon /\ Len(data) >= 2
        stored == IF hasCrc THEN <<header[1], 0, 0>> \o SubSeq(header, 4, Len(header))
                  ELSE header IN
        Bind(header[1] \in {EXT_HEADER_MSDOS_ATTRS, EXT_HEADER_EXT_ATTRS} /\ Len(data) >= 2, LAMBDA isAttrs :
        Bind(header[1] = EXT_HEADER_MSDOS_SIZE /\ level >= 2 /\ Len(data) >= 16, LAMBDA isSize :
    IF isCommon /\ e.header_crc # <<>>
    THEN [e |-> e, st |-> "HeaderParse(double common CRC-16 header)", next |-> 0]
    ELSE [e |-> [p |-> update_checksums_no_wrapping_sum(e.p, stored),
                 extra_headers |-> e.extra_headers \o stored,
                 msdos_attrs |-> IF isAttrs THEN from_le_bytes(SubSeq(data, 1, 2))
                                 ELSE e.msdos_attrs,
                 original_size |-> IF isSize THEN from_le_bytes(SubSeq(data, 9, 16))
                                   ELSE e.original_size,
                 compressed_size |-> IF isSize THEN from_le_bytes(SubSeq(data, 1, 8))
                                     ELSE e.compressed_size,
                 header_crc |-> IF hasCrc THEN <<from_le_bytes(SubSeq(data, 1, 2))>>
                                ELSE e.header_crc],
          st |-> "Ok",
          next |-> IF level = 3
                   THEN from_le_bytes(SubSeq(stored, Len(stored) - 3, Len(stored)))
                   ELSE from_le_bytes(SubSeq(stored, Len(stored) - 1, Len(stored)))])))

\* while extra_header_len != 0 { ... }
RECURSIVE LhaHeader_read_extra(_, _, _, _)
LhaHeader_read_extra(e, extra_header_len, level, long_header_len) ==
    IF extra_header_len = 0 THEN [e |-> e, st |-> "Ok"]
    ELSE IF extra_header_len < (IF level = 3 THEN 5 ELSE 3)
    THEN [e |-> e, st |-> "HeaderParse(wrong extra header size)"]
    ELSE IF long_header_len # 0 /\ long_header_len < e.p.len + extra_header_len - 2
    THEN [e |-> e, st |-> "HeaderParse(wrong header size)"]
    ELSE IF long_header_len = 0 /\ e.compressed_size < Len(e.extra_headers) + extra_header_len
    THEN [e |-> e, st |-> "HeaderParse(wrong header size)"]
    ELSE Bind(read_limit_no_checksums(e.p, extra_header_len), LAMBDA r :
         IF r.st # "Ok" THEN [e |-> [e EXCEPT !.p = r.p], st |-> r.st]
         ELSE Bind(LhaHeader_read_extra_one([e EXCEPT !.p = r.p], r.bytes, level), LAMBDA one :
              IF one.st # "Ok" THEN [e |-> one.e, st |-> one.st]
              ELSE LhaHeader_read_extra(one.e, one.next, level, long_header_len)))

\* LhaHeader::read up to the extended area: the result is [p, st, b], with
\* st "Ok", "None" or the error, and b the fields read so far.
LhaHeader_read_base(rd) ==
    LET none == [header_len |-> 0, csum |-> 0, raw |-> <<>>, level |-> 0, filename |-> <<>>,
                 file_crc |-> 0, os_type |-> 0, extended_area |-> <<>>]
        fail(p, st) == [p |-> p, st |-> st, b |-> none] IN
        Bind([rd |-> rd, crc |-> Crc16_default, csum |-> 0, len |-> 0], LAMBDA p0 :
        Bind(Parser_read_u8_or_none(p0), LAMBDA hl :
    IF hl.st # "Ok" THEN fail(hl.p, hl.st)
    ELSE IF Len(hl.bytes) = 0 THEN fail(hl.p, "None")
    ELSE IF hl.bytes[1] = 0 THEN fail(hl.p, "None")
    ELSE
    LET header_len == hl.bytes[1] IN
        Bind(Parser_read_exact(hl.p, 1), LAMBDA cs :
    IF cs.st # "Ok" THEN fail(cs.p, cs.st)
    ELSE
    Bind(Parser_read_exact([cs.p EXCEPT !.csum = 0], 19), LAMBDA rw :
    IF rw.st # "Ok" THEN fail(rw.p, rw.st)
    ELSE
    LET level == rw.bytes[19] IN
    IF level > 3 THEN fail(rw.p, "HeaderParse(unknown header level)")
    ELSE
    Bind(IF level < 2 THEN Parser_read_exact(rw.p, 1)
              ELSE [p |-> rw.p, st |-> "Ok", bytes |-> <<0>>], LAMBDA fl :
    IF fl.st # "Ok" THEN fail(fl.p, fl.st)
    ELSE IF level < 2 /\ header_len < fl.p.len + fl.bytes[1]
    THEN fail(fl.p, "HeaderParse(wrong header size)")
    ELSE
    Bind(IF level < 2 THEN read_limit(fl.p, fl.bytes[1])
              ELSE [p |-> fl.p, st |-> "Ok", bytes |-> <<>>], LAMBDA fn :
    IF fn.st # "Ok" THEN fail(fn.p, fn.st)
    ELSE
    Bind(Parser_read_exact(fn.p, 2), LAMBDA fc :
    IF fc.st # "Ok" THEN fail(fc.p, fc.st)
    ELSE
    Bind(IF level > 0 THEN Parser_read_exact(fc.p, 1)
              ELSE [p |-> fc.p, st |-> "Ok", bytes |-> <<0>>], LAMBDA os :
    IF os.st # "Ok" THEN fail(os.p, os.st)
    ELSE
    LET min_len == IF level = 0 THEN os.p.len - 2 ELSE os.p.len
        extended_len == header_len - min_len IN
        Bind(IF level = 0 /\ extended_len # 0 THEN Parser_read_exact(os.p, 1) ELSE os, LAMBDA os0 :
        LET area_len == IF level = 0 /\ extended_len # 0 THEN extended_len - 1 ELSE extended_len IN
    IF level >= 2
    THEN [p |-> os.p, st |-> "Ok",
          b |-> [header_len |-> header_len, csum |-> cs.bytes[1], raw |-> rw.bytes,
                 level |-> level, filename |-> fn.bytes,
                 file_crc |-> from_le_bytes(fc.bytes), os_type |-> os.bytes[1],
                 extended_area |-> <<>>]]
    ELSE IF header_len < min_len THEN fail(os.p, "HeaderParse(wrong header size)")
    ELSE IF os0.st # "Ok" THEN fail(os0.p, os0.st)
    ELSE
    Bind(IF area_len # 0 THEN read_limit(os0.p, area_len)
              ELSE [p |-> os0.p, st |-> "Ok", bytes |-> <<>>], LAMBDA ea :
    IF ea.st # "Ok" THEN fail(ea.p, ea.st)
    ELSE [p |-> ea.p, st |-> "Ok",
          b |-> [header_len |-> header_len, csum |-> cs.bytes[1], raw |-> rw.bytes,
                 level |-> level, filename |-> fn.bytes,
                 file_crc |-> from_le_bytes(fc.bytes), os_type |-> os0.bytes[1],
                 extended_area |-> ea.bytes]]))))))))))

\* LhaHeader::read had it left the compressed size of level 1 as it was read
LhaHeader_read_unadjusted(rd) ==
    LET fail(p, st) == [rd |-> p.rd, st |-> st, header |-> LhaHeader_default] IN
        Bind(LhaHeader_read_base(rd), LAMBDA base :
        LET b == base.b
        level == b.level IN
    IF base.st # "Ok" THEN fail(base.p, base.st)
    ELSE
    Bind(IF level = 3 THEN Parser_read_exact(base.p, 4)
              ELSE [p |-> base.p, st |-> "Ok", bytes |-> <<>>], LAMBDA ll :
    IF ll.st # "Ok" THEN fail(ll.p, ll.st)
    ELSE
    Bind(IF level = 2 THEN from_le_bytes(<<b.header_len, b.csum>>)
                           ELSE IF level = 3 THEN from_le_bytes(ll.bytes)
                           ELSE 0, LAMBDA long_header_len :
        Bind(IF level = 0 THEN [p |-> ll.p, st |-> "Ok", bytes |-> <<>>]
              ELSE Parser_read_exact(ll.p, IF level = 3 THEN 4 ELSE 2), LAMBDA fh :
        Bind(from_le_bytes(fh.bytes), LAMBDA first_header_len :
    IF fh.st # "Ok" THEN fail(fh.p, fh.st)
    ELSE IF level = 3 /\ (b.header_len # 4 \/ b.csum # 0)
    THEN fail(fh.p, "HeaderParse(invalid header)")
    ELSE IF level < 2 /\ b.csum # fh.p.csum
    THEN fail(fh.p, "HeaderParse(invalid header level checksum)")
    ELSE IF level >= 2 /\ long_header_len < fh.p.len + first_header_len
    THEN fail(fh.p, "HeaderParse(wrong header size)")
    ELSE
    Bind(LhaHeader_read_extra(
                [p |-> fh.p,
                 extra_headers |-> <<>>,
                 msdos_attrs |-> b.raw[18],
                 original_size |-> from_le_bytes(SubSeq(b.raw, 10, 13)),
                 compressed_size |-> from_le_bytes(SubSeq(b.raw, 6, 9)),
                 header_crc |-> <<>>],
                first_header_len, level, long_header_len), LAMBDA ex :
        LET e == ex.e IN
    IF ex.st # "Ok" THEN fail(e.p, ex.st)
    ELSE
    LET padded == long_header_len # 0 /\ level = 2 /\ long_header_len = e.p.len + 1 IN
        Bind(IF padded THEN Parser_read_exact(e.p, 1)
               ELSE [p |-> e.p, st |-> "Ok", bytes |-> <<>>], LAMBDA pad :
    IF pad.st # "Ok" THEN fail(pad.p, pad.st)
    ELSE IF long_header_len # 0 /\ long_header_len # e.p.len /\ ~padded
            /\ level = 2 /\ long_header_len + 2 # e.p.len
    THEN fail(pad.p, "HeaderParse(wrong length of headers)")
    ELSE IF e.header_crc # <<>> /\ e.header_crc[1] # pad.p.crc
    THEN fail(pad.p, "HeaderParse(wrong header CRC-16 checksum)")
    ELSE IF level = 1 /\ Len(e.extra_headers) > e.compressed_size
    THEN fail(pad.p, "HeaderParse(wrong length of skip size)")
    ELSE [rd |-> pad.p.rd,
          st |-> "Some",
          header |-> [level |-> level,
                      compression |-> SubSeq(b.raw, 1, 5),
                      compressed_size |-> e.compressed_size,
                      original_size |-> e.original_size,
                      filename |-> b.filename,
                      msdos_attrs |-> e.msdos_attrs,
                      last_modified |-> from_le_bytes(SubSeq(b.raw, 14, 17)),
                      os_type |-> b.os_type,
                      file_crc |-> b.file_crc,
                      extended_area |-> b.extended_area,
                      first_header_len |-> first_header_len,
                      extra_headers |-> e.extra_headers]])))))))

\* The result is [rd, st, header]: st is "Some" (Ok(Some(header))), "None"
\* (Ok(None)) or the error; header is meaningful for "Some" only.
LhaHeader_read(rd) ==
    LET fail(p, st) == [rd |-> p.rd, st |-> st, header |-> LhaHeader_default] IN
        Bind(LhaHeader_read_base(rd), LAMBDA base :
        LET b == base.b
        level == b.level IN
    IF base.st # "Ok" THEN fail(base.p, base.st)
    ELSE
    Bind(IF level = 3 THEN Parser_read_exact(base.p, 4)
              ELSE [p |-> base.p, st |-> "Ok", bytes |-> <<>>], LAMBDA ll :
    IF ll.st # "Ok" THEN fail(ll.p, ll.st)
    ELSE
    Bind(IF level = 2 THEN from_le_bytes(<<b.header_len, b.csum>>)
                           ELSE IF level = 3 THEN from_le_bytes(ll.bytes)
                           ELSE 0, LAMBDA long_header_len :
        Bind(IF level = 0 THEN [p |-> ll.p, st |-> "Ok", bytes |-> <<>>]
              ELSE Parser_read_exact(ll.p, IF level = 3 THEN 4 ELSE 2), LAMBDA fh :
        Bind(from_le_bytes(fh.bytes), LAMBDA first_header_len :
    IF fh.st # "Ok" THEN fail(fh.p, fh.st)
    ELSE IF level = 3 /\ (b.header_len # 4 \/ b.csum # 0)
    THEN fail(fh.p, "HeaderParse(invalid header)")
    ELSE IF level < 2 /\ b.csum # fh.p.csum
    THEN fail(fh.p, "HeaderParse(invalid header level checksum)")
    ELSE IF level >= 2 /\ long_header_len < fh.p.len + first_header_len
    THEN fail(fh.p, "HeaderParse(wrong header size)")
    ELSE
    Bind(LhaHeader_read_extra(
                [p |-> fh.p,
                 extra_headers |-> <<>>,
                 msdos_attrs |-> b.raw[18],
                 original_size |-> from_le_bytes(SubSeq(b.raw, 10, 13)),
                 compressed_size |-> from_le_bytes(SubSeq(b.raw, 6, 9)),
                 header_crc |-> <<>>],
                first_header_len, level, long_header_len), LAMBDA ex :
        LET e == ex.e IN
    IF ex.st # "Ok" THEN fail(e.p, ex.st)
    ELSE
    LET padded == long_header_len # 0 /\ level = 2 /\ long_header_len = e.p.len + 1 IN
        Bind(IF padded THEN Parser_read_exact(e.p, 1)
               ELSE [p |-> e.p, st |-> "Ok", bytes |-> <<>>], LAMBDA pad :
    IF pad.st # "Ok" THEN fail(pad.p, pad.st)
    ELSE IF long_header_len # 0 /\ long_header_len # e.p.len /\ ~padded
            /\ level = 2 /\ long_header_len + 2 # e.p.len
    THEN fail(pad.p, "HeaderParse(wrong length of headers)")
    ELSE IF e.header_crc # <<>> /\ e.header_crc[1] # pad.p.crc
    THEN fail(pad.p, "HeaderParse(wrong header CRC-16 checksum)")
    ELSE IF level = 1 /\ Len(e.extra_headers) > e.compressed_size
    THEN fail(pad.p, "HeaderParse(wrong length of skip size)")
    ELSE [rd |-> pad.p.rd,
          st |-> "Some",
          header |-> [level |-> level,
                      compression |-> SubSeq(b.raw, 1, 5),
                      compressed_size |-> IF level = 1
                                          THEN e.compressed_size - Len(e.extra_headers)
                                          ELSE e.compressed_size,
                      original_size |-> e.original_size,
                      filename |-> b.filename,
                      msdos_attrs |-> e.msdos_attrs,
                      last_modified |-> from_le_bytes(SubSeq(b.raw, 14, 17)),
                      os_type |-> b.os_type,
                      file_crc |-> b.file_crc,
                      extended_area |-> b.extended_area,
                      first_header_len |-> first_header_len,
                      extra_headers |-> e.extra_headers]])))))))

\* ExtraHeaderIter: [data, header_length, header_len32].  next gives
\* [it, st, item] with st "Some", "None" or "Panic" (split_at beyond the
\* slice, or a header length below the size of the counter).
\* next had it taken every counter for one of 2 bytes
ExtraHeaderIter_next_u16(it) ==
    IF it.header_length = 0 THEN [it |-> it, st |-> "None", item |-> <<>>]
    ELSE IF it.header_length > Len(it.data) \/ it.header_length < 2
    THEN [it |-> it, st |-> "Panic", item |-> <<>>]
    ELSE [it |-> [it EXCEPT !.header_length =
                                from_le_bytes(SubSeq(it.data, it.header_length - 1,
                                                     it.header_length)),
                            !.data = SubSeq(it.data, it.header_length + 1, Len(it.data))],
          st |-> "Some",
          item |-> SubSeq(it.data, 1, it.header_length - 2)]

ExtraHeaderIter_next(it) ==
    Bind(IF it.header_len32 THEN 4 ELSE 2, LAMBDA counter_size :
    IF it.header_length = 0 THEN [it |-> it, st |-> "None", item |-> <<>>]
    ELSE IF it.header_length > Len(it.data) \/ it.header_length < counter_size
    THEN [it |-> it, st |-> "Panic", item |-> <<>>]
    ELSE [it |-> [it EXCEPT !.header_length =
                                from_le_bytes(SubSeq(it.data,
                                                     it.header_length - counter_size + 1,
                                                     it.header_length)),
                            !.data = SubSeq(it.data, it.header_length + 1, Len(it.data))],
          st |-> "Some",
          item |-> SubSeq(it.data, 1, it.header_length - counter_size)])

iter_extra(header) ==
    [data |-> header.extra_headers, header_length |-> header.first_header_len,
     header_len32 |-> (header.level = 3)]

\* the items an iterator yields until it returns None: [st, items], with st
\* "None" or "Panic"
RECURSIVE ExtraHeaderIter_collect(_, _)
ExtraHeaderIter_collect(it, items) ==
    Bind(ExtraHeaderIter_next(it), LAMBDA r :
    IF r.st # "Some" THEN [st |-> r.st, items |-> items]
    ELSE ExtraHeaderIter_collect(r.it, Append(items, r.item)))

\* ------------------------------------------------------------------------
\* header/compression.rs: the identifiers are their ASCII bytes
\* ------------------------------------------------------------------------
CompressionMethod_try_from(s) ==
    CASE s = <<45, 108, 104, 100, 45>> -> "Lhd"
      [] s = <<45, 108, 122, 115, 45>> -> "Lzs"
      [] s = <<45, 108, 122, 52, 45>> -> "Lz4"
      [] s = <<45, 108, 122, 53, 45>> -> "Lz5"
      [] s = <<45, 108, 104, 48, 45>> -> "Lh0"
      [] s = <<45, 108, 104, 49, 45>> -> "Lh1"
      [] s = <<45, 108, 104, 52, 45>> -> "Lh4"
      [] s = <<45, 108, 104, 53, 45>> -> "Lh5"
      [] s = <<45, 108, 104, 54, 45>> -> "Lh6"
      [] s = <<45, 108, 104, 55, 45>> -> "Lh7"
      [] s = <<45, 108, 104, 120, 45>> -> "Lhx"
      [] s = <<45, 112, 109, 48, 45>> -> "Pm0"
      [] s = <<45, 112, 109, 49, 45>> -> "Pm1"
      [] s = <<45, 112, 109, 50, 45>> -> "Pm2"
      [] OTHER -> "Unrecognized"

\* ------------------------------------------------------------------------
\* decode.rs: DecoderAny.  The Lh4/Lh5 and the Lh6/Lh7 variants hold the
\* same decoder and are not told apart.
\* ------------------------------------------------------------------------
\* new_from_compression of a build without the decoder of -lhx-
new_from_compression_without_lhx(compression, rd) ==
    CASE compression \in {"Pm0", "Lz4", "Lh0"} -> Passthrough_new(rd)
      [] compression = "Lzs" -> Lzs_new(rd)
      [] compression = "Lz5" -> Lz5_new(rd)
      [] compression = "Lh1" -> Lh1_new(rd)
      [] compression \in {"Lh4", "Lh5"} -> LhaV2Decoder_new("Lh5", rd)
      [] compression \in {"Lh6", "Lh7"} -> LhaV2Decoder_new("Lh7", rd)
      [] OTHER -> Unsupported_new(rd)

new_from_compression(compression, rd) ==
    CASE compression \in {"Pm0", "Lz4", "Lh0"} -> Passthrough_new(rd)
      [] compression = "Lzs" -> Lzs_new(rd)
      [] compression = "Lz5" -> Lz5_new(rd)
      [] compression = "Lh1" -> Lh1_new(rd)
      [] compression \in {"Lh4", "Lh5"} -> LhaV2Decoder_new("Lh5", rd)
      [] compression \in {"Lh6", "Lh7"} -> LhaV2Decoder_new("Lh7", rd)
      [] compression = "Lhx" -> LhaV2Decoder_new("Lhx", rd)
      [] OTHER -> Unsupported_new(rd)

new_from_header(header, rd) ==
    Bind(Read_take(rd, header.compressed_size), LAMBDA limited_rd :
        Bind(CompressionMethod_try_from(header.compression), LAMBDA compression :
     IF compression # "Unrecognized" THEN new_from_compression(compression, limited_rd)
       ELSE Unsupported_new(limited_rd)))

is_supported(d) == d.kind # "Unsupported"

\* Decoder::into_inner of every variant: the Take the decoder reads from
Decoder_into_inner(d) ==
    CASE d.kind \in {"Passthrough", "Unsupported"} -> d.inner
      [] d.kind = "Lz5" -> d.reader
      [] OTHER -> d.bit_reader.inner

Decoder_fill_buffer(d, buflen) ==
    CASE d.kind = "Passthrough" -> Passthrough_fill_buffer(d, buflen)
      [] d.kind = "Unsupported" -> Unsupported_fill_buffer(d, buflen)
      [] d.kind = "Lzs" -> Lzs_fill_buffer(d, buflen)
      [] d.kind = "Lz5" -> Lz5_fill_buffer(d, buflen)
      [] d.kind = "Lh1" -> Lh1_fill_buffer(d, buflen)
      [] OTHER -> LhaV2_fill_buffer(d, buflen)

\* ------------------------------------------------------------------------
\* decode.rs: LhaDecodeReader.  A reader is [header, crc, output_length,
\* decoder], the decoder <<>> (None) or <<d>> (Some(d)).  An operation that
\* returns a Result yields st "Ok(true)", "Ok(false)", "Ok" or "Err", and
\* with "Err" the LhaDecodeError in err.
\* ------------------------------------------------------------------------
LhaDecodeReader_default ==
    [header |-> LhaHeader_default, crc |-> Crc16_default, output_length |-> 0, decoder |-> <<>>]

\* an LhaDecodeError is [read, source]
wrap_err(read, source) == [read |-> read, source |-> source]

LhaDecodeError_into_inner(e) == e.read

\* new had it taken a missing header for the end of the archive, as begin_new
\* does
LhaDecodeReader_new_at_end(rd) ==
    Bind(LhaHeader_read(rd), LAMBDA h :
    IF h.st = "Some"
    THEN [self |-> <<[header |-> h.header, crc |-> Crc16_default, output_length |-> 0,
                      decoder |-> <<new_from_header(h.header, h.rd)>>]>>,
          st |-> "Ok", err |-> <<>>]
    ELSE IF h.st = "None"
    THEN [self |-> <<[header |-> LhaHeader_default, crc |-> Crc16_default, output_length |-> 0,
                      decoder |-> <<Unsupported_new(Read_take(h.rd, 0))>>]>>,
          st |-> "Ok", err |-> <<>>]
    ELSE [self |-> <<>>, st |-> "Err", err |-> <<wrap_err(h.rd, h.st)>>])

LhaDecodeReader_new(rd) ==
    Bind(LhaHeader_read(rd), LAMBDA h :
    IF h.st = "Some"
    THEN [self |-> <<[header |-> h.header, crc |-> Crc16_default, output_length |-> 0,
                      decoder |-> <<new_from_header(h.header, h.rd)>>]>>,
          st |-> "Ok", err |-> <<>>]
    ELSE [self |-> <<>>, st |-> "Err",
          err |-> <<wrap_err(h.rd, IF h.st = "None" THEN "HeaderParse(a header is missing)"
                                   ELSE h.st)>>])

\* begin_new had it left the CRC and the output length of the file before
begin_new_keeping(self, rd) ==
    Bind(LhaHeader_read(rd), LAMBDA h :
    IF h.st = "Some"
    THEN [self |-> [self EXCEPT !.decoder = <<new_from_header(h.header, h.rd)>>,
                                !.header = h.header],
          st |-> "Ok(true)", err |-> <<>>]
    ELSE IF h.st = "None"
    THEN [self |-> [self EXCEPT !.decoder = <<Unsupported_new(Read_take(h.rd, 0))>>,
                                !.crc = Crc16_default,
                                !.output_length = 0],
          st |-> "Ok(false)", err |-> <<>>]
    ELSE [self |-> self, st |-> "Err", err |-> <<wrap_err(h.rd, h.st)>>])

\* begin_new had it dropped the stream when no header is left
begin_new_absent_at_end(self, rd) ==
    Bind(LhaHeader_read(rd), LAMBDA h :
    IF h.st = "Some"
    THEN [self |-> [self EXCEPT !.decoder = <<new_from_header(h.header, h.rd)>>,
                                !.header = h.header,
                                !.crc = Crc16_default,
                                !.output_length = 0],
          st |-> "Ok(true)", err |-> <<>>]
    ELSE IF h.st = "None"
    THEN [self |-> [self EXCEPT !.decoder = <<>>,
                                !.crc = Crc16_default,
                                !.output_length = 0],
          st |-> "Ok(false)", err |-> <<>>]
    ELSE [self |-> self, st |-> "Err", err |-> <<wrap_err(h.rd, h.st)>>])

\* begin_new had it reset the CRC and the output length before the parse
begin_new_reset_first(self, rd) ==
    Bind(LhaHeader_read(rd), LAMBDA h :
    IF h.st = "Some"
    THEN [self |-> [self EXCEPT !.decoder = <<new_from_header(h.header, h.rd)>>,
                                !.header = h.header,
                                !.crc = Crc16_default,
                                !.output_length = 0],
          st |-> "Ok(true)", err |-> <<>>]
    ELSE IF h.st = "None"
    THEN [self |-> [self EXCEPT !.decoder = <<Unsupported_new(Read_take(h.rd, 0))>>,
                                !.crc = Crc16_default,
                                !.output_length = 0],
          st |-> "Ok(false)", err |-> <<>>]
    ELSE [self |-> [self EXCEPT !.crc = Crc16_default, !.output_length = 0],
          st |-> "Err", err |-> <<wrap_err(h.rd, h.st)>>])

begin_new(self, rd) ==
    Bind(LhaHeader_read(rd), LAMBDA h :
    IF h.st = "Some"
    THEN [self |-> [self EXCEPT !.decoder = <<new_from_header(h.header, h.rd)>>,
                                !.header = h.header,
                                !.crc = Crc16_default,
                                !.output_length = 0],
          st |-> "Ok(true)", err |-> <<>>]
    ELSE IF h.st = "None"
    THEN [self |-> [self EXCEPT !.decoder = <<Unsupported_new(Read_take(h.rd, 0))>>,
                                !.crc = Crc16_default,
                                !.output_length = 0],
          st |-> "Ok(false)", err |-> <<>>]
    ELSE [self |-> self, st |-> "Err", err |-> <<wrap_err(h.rd, h.st)>>])

begin_with_header_and_decoder(self, header, decoder) ==
    [self EXCEPT !.decoder = <<decoder>>, !.header = header,
                 !.crc = Crc16_default, !.output_length = 0]

\* next_file_with_sink had it begun the next file on the reader as it was,
\* its decoder not taken
next_file_with_sink_kept(self, BUF) ==
    IF self.decoder = <<>>
    THEN [self |-> self, st |-> "Panic", err |-> <<>>, from |-> <<>>]
    ELSE
      Bind(Decoder_into_inner(self.decoder[1]), LAMBDA limited_rd :
      Bind(IF limited_rd.limit # 0 THEN discard_to_end(limited_rd, BUF)
           ELSE [t |-> limited_rd, st |-> "Ok"], LAMBDA skip :
      IF skip.st # "Ok"
      THEN [self |-> self, st |-> "Err", err |-> <<wrap_err(skip.t.inner, skip.st)>>,
            from |-> <<>>]
      ELSE Bind(begin_new(self, skip.t.inner), LAMBDA r :
           [self |-> r.self, st |-> r.st, err |-> r.err, from |-> <<skip.t.inner>>])))

\* from is what the call hands to begin_new: <<>> or <<rd>>
next_file_with_sink(self, BUF) ==
    IF self.decoder = <<>>
    THEN [self |-> self, st |-> "Panic", err |-> <<>>, from |-> <<>>]
    ELSE
      Bind(Decoder_into_inner(self.decoder[1]), LAMBDA limited_rd :
          LET taken == [self EXCEPT !.decoder = <<>>] IN
          Bind(IF limited_rd.limit # 0 THEN discard_to_end(limited_rd, BUF)
                  ELSE [t |-> limited_rd, st |-> "Ok"], LAMBDA skip :
      IF skip.st # "Ok"
      THEN [self |-> taken, st |-> "Err", err |-> <<wrap_err(skip.t.inner, skip.st)>>,
            from |-> <<>>]
      ELSE Bind(begin_new(taken, skip.t.inner), LAMBDA r :
           [self |-> r.self, st |-> r.st, err |-> r.err, from |-> <<skip.t.inner>>])))

STD_SINK == 8192
NO_STD_SINK == 512

next_file(self) == next_file_with_sink(self, STD_SINK)

LhaDecodeReader_header(self) == self.header

into_inner(self) ==
    IF self.decoder = <<>> THEN [st |-> "Panic", res |-> <<>>]
    ELSE [st |-> "Ok", res |-> <<Decoder_into_inner(self.decoder[1]).inner>>]

take_inner(self) ==
    [self |-> [self EXCEPT !.header.original_size = 0, !.output_length = 0,
                           !.crc = Crc16_default, !.decoder = <<>>],
     res |-> IF self.decoder = <<>> THEN <<>>
             ELSE <<Decoder_into_inner(self.decoder[1]).inner>>]

LhaDecodeReader_len(self) == self.header.original_size - self.output_length

is_empty(self) == self.header.original_size = self.output_length

is_present(self) == self.decoder # <<>>

is_absent(self) == self.decoder = <<>>

crc_is_ok(self) == self.crc = self.header.file_crc

crc_check(self) ==
    IF crc_is_ok(self) THEN [st |-> "Ok", value |-> self.header.file_crc]
    ELSE [st |-> "Checksum(crc16 mismatch)", value |-> 0]

is_decoder_supported(self) == self.decoder # <<>> /\ is_supported(self.decoder[1])

\* read had it passed the whole buffer to the decoder
read_unclamped(self, buflen) ==
    IF self.decoder = <<>> THEN [self |-> self, st |-> "Panic", n |-> 0, bytes |-> <<>>]
    ELSE Bind(Decoder_fill_buffer(self.decoder[1], buflen), LAMBDA r :
         IF r.st # "Ok"
         THEN [self |-> [self EXCEPT !.decoder = <<r.d>>], st |-> r.st, n |-> 0, bytes |-> <<>>]
         ELSE [self |-> [self EXCEPT !.decoder = <<r.d>>,
                                     !.output_length = self.output_length + buflen,
                                     !.crc = Crc16_digest(self.crc, r.out)],
               st |-> "Ok", n |-> buflen, bytes |-> r.out])

\* read had it left the bytes out of the CRC
read_undigested(self, buflen) ==
    Bind(Min(buflen, self.header.original_size - self.output_length), LAMBDA len0 :
    IF self.decoder = <<>> THEN [self |-> self, st |-> "Panic", n |-> 0, bytes |-> <<>>]
    ELSE Bind(Decoder_fill_buffer(self.decoder[1], len0), LAMBDA r :
         IF r.st # "Ok"
         THEN [self |-> [self EXCEPT !.decoder = <<r.d>>], st |-> r.st, n |-> 0, bytes |-> <<>>]
         ELSE [self |-> [self EXCEPT !.decoder = <<r.d>>,
                                     !.output_length = self.output_length + len0],
               st |-> "Ok", n |-> len0, bytes |-> r.out]))

\* read had it left the last byte of the buffer unused
read_one_short(self, buflen) ==
    Bind(Min(IF buflen > 0 THEN buflen - 1 ELSE 0,
             self.header.original_size - self.output_length), LAMBDA len0 :
    IF self.decoder = <<>> THEN [self |-> self, st |-> "Panic", n |-> 0, bytes |-> <<>>]
    ELSE Bind(Decoder_fill_buffer(self.decoder[1], len0), LAMBDA r :
         IF r.st # "Ok"
         THEN [self |-> [self EXCEPT !.decoder = <<r.d>>], st |-> r.st, n |-> 0, bytes |-> <<>>]
         ELSE [self |-> [self EXCEPT !.decoder = <<r.d>>,
                                     !.output_length = self.output_length + len0,
                                     !.crc = Crc16_digest(self.crc, r.out)],
               st |-> "Ok", n |-> len0, bytes |-> r.out]))

\* read had it counted the bytes before it looked at what the decoder returned
read_committing_early(self, buflen) ==
    Bind(Min(buflen, self.header.original_size - self.output_length), LAMBDA len0 :
    IF self.decoder = <<>> THEN [self |-> self, st |-> "Panic", n |-> 0, bytes |-> <<>>]
    ELSE Bind(Decoder_fill_buffer(self.decoder[1], len0), LAMBDA r :
         IF r.st # "Ok"
         THEN [self |-> [self EXCEPT !.decoder = <<r.d>>,
                                     !.output_length = self.output_length + len0],
               st |-> r.st, n |-> 0, bytes |-> <<>>]
         ELSE [self |-> [self EXCEPT !.decoder = <<r.d>>,
                                     !.output_length = self.output_length + len0,
                                     !.crc = Crc16_digest(self.crc, r.out)],
               st |-> "Ok", n |-> len0, bytes |-> r.out]))

\* read had it counted the length of the buffer, not the clamped one
read_counting_buffer(self, buflen) ==
    Bind(Min(buflen, self.header.original_size - self.output_length), LAMBDA len0 :
    IF self.decoder = <<>> THEN [self |-> self, st |-> "Panic", n |-> 0, bytes |-> <<>>]
    ELSE Bind(Decoder_fill_buffer(self.decoder[1], len0), LAMBDA r :
         IF r.st # "Ok"
         THEN [self |-> [self EXCEPT !.decoder = <<r.d>>], st |-> r.st, n |-> 0, bytes |-> <<>>]
         ELSE [self |-> [self EXCEPT !.decoder = <<r.d>>,
                                     !.output_length = self.output_length + buflen,
                                     !.crc = Crc16_digest(self.crc, r.out)],
               st |-> "Ok", n |-> buflen, bytes |-> r.out]))

\* read (std) and read_all (no std) of the reader, for a buffer of buflen
\* bytes: n is the count returned, bytes what the call left in the buffer
read(self, buflen) ==
    Bind(Min(buflen, self.header.original_size - self.output_length), LAMBDA len0 :
    IF self.decoder = <<>> THEN [self |-> self, st |-> "Panic", n |-> 0, bytes |-> <<>>]
    ELSE Bind(Decoder_fill_buffer(self.decoder[1], len0), LAMBDA r :
         IF r.st # "Ok"
         THEN [self |-> [self EXCEPT !.decoder = <<r.d>>], st |-> r.st, n |-> 0, bytes |-> <<>>]
         ELSE [self |-> [self EXCEPT !.decoder = <<r.d>>,
                                     !.output_length = self.output_length + len0,
                                     !.crc = Crc16_digest(self.crc, r.out)],
               st |-> "Ok", n |-> len0, bytes |-> r.out]))

\* ------------------------------------------------------------------------
\* Inputs: archives as an archiver writes them, byte by byte.
\* ------------------------------------------------------------------------
MaxBuf == 2
SmallSink == 2
MaxPreuse == 1
MaxChunk == 3
MaxTotal == 7
\* calls of increment_for_value and read_entry on a tree alone
MaxCalls == 3
\* calls of increment_for_value in one step of a run
MaxRun == 64
\* entries of a table of code lengths, and the longest length, of the
\* tables built one after another in a HuffTree alone
MaxSymbols == 4
MaxLength == 3
\* calls of push and of iter_from_offset on a ring alone
MaxRingCalls == 4
\* bytes asked of an Lz5Decoder alone in all
MaxLz5Total == 12

\* v as n little-endian bytes
le_bytes(v, n) == [i \in 1..n |-> (v \div Pow2(8 * (i - 1))) % 256]

\* the identifier "-l" c1 c2 "-"
MethodId(c1, c2) == <<45, 108, c1, c2, 45>>

\* A level 0 header without a file name, followed by the body.
Level0File(method, original_size, file_crc, body) ==
    Bind(method \o le_bytes(Len(body), 4) \o le_bytes(original_size, 4)
                \o <<0, 0, 0, 0, MSDOS_ARCHIVE, 0, 0>> \o le_bytes(file_crc, 2), LAMBDA rest :
     <<Len(rest), wrapping_csum(0, rest)>> \o rest \o body)

\* "ABC" stored
File_stored == Level0File(MethodId(104, 48), 3, Crc16_digest(0, <<65, 66, 67>>), <<65, 66, 67>>)
\* "ABABA" of a body that goes on: A, B, a copy of 5, C
File_lzs ==
    Level0File(MethodId(122, 115), 5, Crc16_digest(0, <<65, 66, 65, 66, 65>>),
               <<160, 208, 159, 188, 232, 96>>)
\* "ABABA": A, B, a copy of 3
File_lz5 ==
    Level0File(MethodId(122, 53), 5, Crc16_digest(0, <<65, 66, 65, 66, 65>>),
               <<3, 65, 66, 238, 240>>)
\* "AAAA" of a body of two blocks: A, A, and a copy of 5
File_lh5 ==
    Level0File(MethodId(104, 53), 4, Crc16_digest(0, <<65, 65, 65, 65>>),
               <<0, 2, 0, 0, 4, 16, 0, 0, 16, 0, 1, 2, 1>>)
File_lh1 ==
    Level0File(MethodId(104, 49), 3, Crc16_digest(0, <<65, 244, 117>>),
               <<230, 192, 0, 140, 0, 0>>)
\* a directory entry
File_dir == Level0File(MethodId(104, 100), 0, 0, <<>>)
\* an identifier that is not recognized, with a body
File_unknown == Level0File(MethodId(104, 113), 3, 0, <<9, 9>>)
\* "AB" stored under a wrong CRC
File_badcrc == Level0File(MethodId(104, 48), 2, Crc16_digest(0, <<65, 66>>) + 1, <<65, 66>>)
File_empty == Level0File(MethodId(104, 48), 0, 0, <<>>)
File_xy == Level0File(MethodId(104, 48), 2, Crc16_digest(0, <<88, 89>>), <<88, 89>>)
\* a header whose checksum byte is wrong
File_badsum == [File_stored EXCEPT ![2] = (File_stored[2] + 1) % 256]

Archives ==
    { File_stored \o File_lzs \o <<0>>,
      File_lz5,
      File_dir \o File_unknown \o File_stored,
      File_lh5 \o File_badcrc,
      File_lh1 \o <<0>> \o File_xy,
      SubSeq(File_stored, 1, Len(File_stored) - 2),
      File_stored \o File_badsum,
      File_lzs \o SubSeq(File_stored, 1, 5),
      File_empty \o File_stored,
      <<>> }

\* where the device of the first stream may fail
FaultPoints == {25, 30}

Streams1 ==
    {[id |-> 1, buf |-> a, good |-> NoFault] : a \in Archives}
    \cup {[id |-> 1, buf |-> File_stored \o File_lzs \o <<0>>, good |-> g] : g \in FaultPoints}

Streams2 == {[id |-> 2, buf |-> a, good |-> NoFault] : a \in {File_xy, File_badsum}}

\* the two streams a caller starts with: any first stream beside a good
\* second one, and two of the first streams beside a second one that no
\* header can be parsed from
StreamPairs ==
    {<<s1, s2>> \in Streams1 \X Streams2 :
        \/ s2.buf = File_xy
        \/ s1.good = NoFault /\ s1.buf \in {File_stored \o File_lzs \o <<0>>, File_lz5}}

\* compressed streams handed to a decoder alone
DecInputs ==
    { [kind |-> "Lh0", bytes |-> <<1, 2, 3, 4, 5, 6, 7>>, limit |-> 7],
      [kind |-> "Lh0", bytes |-> <<1, 2, 3, 4, 5, 6, 7>>, limit |-> 4],
      [kind |-> "Lzs", bytes |-> <<160, 208, 159, 188, 232, 96>>, limit |-> 6],
      [kind |-> "Lzs", bytes |-> <<160, 208, 159, 188, 232, 96>>, limit |-> 4],
      [kind |-> "Lzs", bytes |-> <<0, 3, 128, 0>>, limit |-> 4],
      [kind |-> "Lz5", bytes |-> <<11, 65, 66, 238, 242, 67>>, limit |-> 6],
      [kind |-> "Lz5", bytes |-> <<0, 238, 255, 0, 1>>, limit |-> 5],
      [kind |-> "Lz5", bytes |-> <<3, 65, 66, 238>>, limit |-> 4],
      [kind |-> "Lh1", bytes |-> <<143, 0, 0, 140, 0, 0>>, limit |-> 6],
      [kind |-> "Lh1", bytes |-> <<230, 192, 0, 140, 0, 0>>, limit |-> 6],
      [kind |-> "Lh1", bytes |-> <<230, 199, 128, 0, 35, 0, 0>>, limit |-> 7],
      [kind |-> "Lh5", bytes |-> <<0, 3, 0, 0, 4, 16, 0>>, limit |-> 7],
      [kind |-> "Lh5", bytes |-> <<0, 2, 0, 0, 4, 16, 0, 0, 16, 0, 1, 2, 1>>, limit |-> 13],
      [kind |-> "Lh5", bytes |-> <<0, 3, 32, 4, 48, 16, 182, 85, 64, 16>>, limit |-> 10],
      [kind |-> "Lh5", bytes |-> <<0, 3, 32, 4, 48, 16, 182, 85, 64, 16, 0, 1, 0, 0, 4, 17, 0>>,
       limit |-> 17],
      [kind |-> "Lh7", bytes |-> <<0, 1, 0, 0, 4, 32, 0, 0, 4, 0, 0, 64, 64, 0>>, limit |-> 14],
      [kind |-> "Lhx", bytes |-> <<0, 1, 0, 0, 4, 32, 0, 0, 4, 0, 0, 64, 64, 0>>, limit |-> 14],
      [kind |-> "Lhx", bytes |-> <<0, 1, 0, 0, 4, 32, 0, 0, 4, 0, 0, 64, 64, 0>>, limit |-> 9] }

\* ------------------------------------------------------------------------
\* Headers put together field by field.  A header input is
\*   [level, method, fname, fcrc, os, area, first, chain, csize, osize,
\*    dL, pad, csum_add, crcat, crc_add, tail]:
\* first and chain are the first extra-header length and the bytes of the
\* extra headers, dL what the total header length of a level 2 or 3 header
\* differs by from the bytes up to the end of the chain, pad the bytes
\* after the chain, csum_add what is added to the right checksum byte,
\* crcat the place in the chain of the CRC field of the Common record (0:
\* there is none) and crc_add what is added to the right header CRC; tail
\* are the bytes that follow the header.  A level of 4 gives the bytes of
\* tail alone.
\* ------------------------------------------------------------------------
NoHeaderInput ==
    [level |-> 4, method |-> <<>>, fname |-> <<>>, fcrc |-> 0, os |-> 0, area |-> <<>>,
     first |-> 0, chain |-> <<>>, csize |-> 0, osize |-> 0, dL |-> 0, pad |-> <<>>,
     csum_add |-> 0, crcat |-> 0, crc_add |-> 0, tail |-> <<>>]

\* the extra headers of the bodies recs, each followed by the length of the
\* next in w bytes
RECURSIVE ExtraChain(_, _)
ExtraChain(recs, w) ==
    IF recs = <<>> THEN <<>>
    ELSE Head(recs) \o le_bytes(IF Len(recs) > 1 THEN Len(recs[2]) + w ELSE 0, w)
                    \o ExtraChain(Tail(recs), w)

ExtraFirst(recs, w) == IF recs = <<>> THEN 0 ELSE Len(recs[1]) + w

RawBaseHeader(d) ==
    d.method \o le_bytes(d.csize, 4) \o le_bytes(d.osize, 4)
             \o <<0, 0, 0, 0, MSDOS_ARCHIVE, d.level>>

\* the bytes of the header up to the extra headers
HeaderBase(d) ==
    CASE d.level = 0 ->
           LET rest == RawBaseHeader(d) \o <<Len(d.fname)>> \o d.fname \o le_bytes(d.fcrc, 2)
                                        \o d.area IN
           <<Len(rest), (wrapping_csum(0, rest) + d.csum_add) % 256>> \o rest
      [] d.level = 1 ->
           LET rest == RawBaseHeader(d) \o <<Len(d.fname)>> \o d.fname \o le_bytes(d.fcrc, 2)
                                        \o <<d.os>> \o d.area \o le_bytes(d.first, 2) IN
           <<Len(rest), (wrapping_csum(0, rest) + d.csum_add) % 256>> \o rest
      [] d.level = 2 ->
           le_bytes(26 + Len(d.chain) + d.dL, 2) \o RawBaseHeader(d) \o le_bytes(d.fcrc, 2)
                                                 \o <<d.os>> \o le_bytes(d.first, 2)
      [] d.level = 3 ->
           <<4, 0>> \o RawBaseHeader(d) \o le_bytes(d.fcrc, 2) \o <<d.os>>
                    \o le_bytes(32 + Len(d.chain) + d.dL, 4) \o le_bytes(d.first, 4)
      [] OTHER -> <<>>

\* the header with the CRC field of the Common record as the chain has it
HeaderUnsigned(d) == HeaderBase(d) \o d.chain \o d.pad

\* the header with its CRC-16 in the CRC field of the Common record
HeaderBytes(d) ==
    IF d.crcat = 0 THEN HeaderUnsigned(d)
    ELSE LET k == Len(HeaderBase(d)) + d.crcat
             crc == (Crc16_digest(0, HeaderUnsigned(d)) + d.crc_add) % 65536 IN
         [HeaderUnsigned(d) EXCEPT ![k] = crc % 256, ![k + 1] = crc \div 256]

HeaderStream(d) == HeaderBytes(d) \o d.tail

\* "-pm" c "-"
PmId(c) == <<45, 112, 109, c, 45>>

\* the identifiers CompressionMethod::try_from knows, and three it does not
\* ("-lh8-", "-LH5-", "-lz7-")
KnownMethods ==
    { MethodId(104, 100), MethodId(122, 115), MethodId(122, 52), MethodId(122, 53),
      MethodId(104, 48), MethodId(104, 49), MethodId(104, 52), MethodId(104, 53),
      MethodId(104, 54), MethodId(104, 55), MethodId(104, 120),
      PmId(48), PmId(49), PmId(50) }

OtherMethods == { MethodId(104, 56), <<45, 76, 72, 53, 45>>, MethodId(122, 55) }

\* a header of a level with the identifier -lh0- and nothing else set
HeaderOfLevel(level) == [NoHeaderInput EXCEPT !.level = level, !.method = MethodId(104, 48)]

\* extra headers: a Common record (its CRC field not yet set), one with an
\* information byte, a file name and a directory
RecCommon == <<EXT_HEADER_COMMON, 0, 0>>
RecCommonInfo == <<EXT_HEADER_COMMON, 0, 0, 33>>
RecName == <<1, 71>>
RecDir == <<2, 100, 255>>

\* one header of every identifier
MethodInputs ==
    {[HeaderOfLevel(0) EXCEPT !.method = m] : m \in KnownMethods \cup OtherMethods}

\* streams without a header at their start
EndInputs ==
    {[NoHeaderInput EXCEPT !.tail = t] : t \in {<<>>, <<0>>, <<0, 22>>, <<0>> \o File_xy}}

\* level 0 and 1 headers under right and wrong checksum bytes
ChecksumInputs ==
    {[HeaderOfLevel(l) EXCEPT !.fname = f, !.area = a, !.csum_add = c, !.os = 77] :
        l \in {0, 1}, f \in {<<>>, <<70>>}, a \in {<<>>, <<85, 200>>}, c \in {0, 1, 255}}
    \cup {[HeaderOfLevel(1) EXCEPT !.first = ExtraFirst(<<RecDir>>, 2),
                                   !.chain = ExtraChain(<<RecDir>>, 2),
                                   !.csize = 5, !.csum_add = c] : c \in {0, 3}}

\* headers with a Common record under right and wrong CRC-16 values, with
\* two Common records, and with a Common record that has no room for the
\* CRC field
SignedChains ==
    { [recs |-> <<RecCommon>>, crcat |-> 2],
      [recs |-> <<RecCommon, RecName>>, crcat |-> 2],
      [recs |-> <<RecCommonInfo, RecDir>>, crcat |-> 2],
      [recs |-> <<RecName, RecCommon>>, crcat |-> 6],
      [recs |-> <<RecCommon, RecCommon>>, crcat |-> 2],
      [recs |-> <<RecName, RecDir>>, crcat |-> 0] }

SignedHeader(l, c, a, p) ==
    [HeaderOfLevel(l) EXCEPT !.first = ExtraFirst(c.recs, 2), !.chain = ExtraChain(c.recs, 2),
                             !.csize = Len(ExtraChain(c.recs, 2)) * (2 - l),
                             !.crcat = c.crcat, !.crc_add = a,
                             !.fname = IF l = 1 THEN <<70>> ELSE <<>>,
                             !.dL = p, !.pad = IF p = 1 THEN <<7>> ELSE <<>>]

CrcInputs ==
    {SignedHeader(1, c, a, 0) : c \in SignedChains, a \in {0, 1}}
    \cup {SignedHeader(2, c, a, p) : c \in SignedChains, a \in {0, 1}, p \in {0, 1}}
    \cup {[HeaderOfLevel(3) EXCEPT !.first = ExtraFirst(<<RecCommon, RecName>>, 4),
                                   !.chain = ExtraChain(<<RecCommon, RecName>>, 4),
                                   !.crcat = 2, !.crc_add = a] : a \in {0, 1}}
    \cup {[HeaderOfLevel(l) EXCEPT !.first = 3, !.chain = <<EXT_HEADER_COMMON, 0, 0>>,
                                   !.csize = 3, !.crcat = 2, !.tail = <<0, 0, 0>>] : l \in {1, 2}}

\* level 1 headers whose extra headers are shorter than, as long as and
\* longer than the compressed size on the wire
SkipInputs ==
    {[HeaderOfLevel(1) EXCEPT !.first = ExtraFirst(r, 2), !.chain = ExtraChain(r, 2),
                              !.csize = n, !.osize = 1, !.tail = <<65, 0>>] :
        r \in {<<>>, <<RecName>>, <<RecName, RecDir>>}, n \in {0, 3, 4, 5, 9, 10}}

\* level 2 headers whose total length is and is not that of the bytes
\* they have
LengthInputs ==
    {[HeaderOfLevel(2) EXCEPT !.first = ExtraFirst(r, 2), !.chain = ExtraChain(r, 2),
                              !.dL = dl, !.tail = <<9, 0>>] :
        r \in {<<>>, <<RecName>>, <<RecName, RecDir>>}, dl \in {0 - 3, 0 - 2, 0 - 1, 0, 1, 2}}

\* level 3 headers whose total length is and is not that of the bytes they
\* have, and two whose first two bytes are not (4, 0)
Level3Lengths ==
    {[HeaderOfLevel(3) EXCEPT !.first = ExtraFirst(r, 4), !.chain = ExtraChain(r, 4),
                              !.dL = dl, !.tail = <<9, 0>>] :
        r \in {<<>>, <<RecName>>, <<RecName, RecDir>>}, dl \in {0 - 3, 0 - 2, 0 - 1, 0, 1, 2}}

Level3Leads ==
    {[NoHeaderInput EXCEPT !.tail = [HeaderStream(HeaderOfLevel(3)) EXCEPT ![k] = k + 4]] :
        k \in {1, 2}}

Level3Inputs == Level3Lengths \cup Level3Leads

\* extra headers that carry MS-DOS attributes (0x40, 0x7F) with a payload of
\* 0 to 3 bytes, and file sizes (0x42) with one of 11 to 17 bytes
RecAttrs(id, n) == <<id>> \o SubSeq(<<1, 0, 7>>, 1, n)
RecSizes(n) == <<EXT_HEADER_MSDOS_SIZE>> \o SubSeq(<<1, 0, 0, 0, 0, 0, 0, 0, 1, 0, 0, 0, 0, 0, 0, 0, 5>>, 1, n)

OverrideChains ==
    {<<RecAttrs(EXT_HEADER_MSDOS_ATTRS, n)>> : n \in 0..3}
        \cup {<<RecAttrs(EXT_HEADER_EXT_ATTRS, n)>> : n \in {0, 2, 3}}
        \cup {<<RecAttrs(EXT_HEADER_MSDOS_ATTRS, 0), RecName>>,
              <<RecAttrs(EXT_HEADER_MSDOS_ATTRS, 2), RecAttrs(EXT_HEADER_EXT_ATTRS, 1)>>}
        \cup {<<RecSizes(n)>> : n \in {11, 12, 14, 15, 16, 17}}

\* a header of two bytes of data with the chain r; on level 1 the skip size
\* has the chain in it
OverrideInput(level, r) ==
    Bind(IF level = 3 THEN 4 ELSE 2, LAMBDA w :
    [HeaderOfLevel(level) EXCEPT !.first = ExtraFirst(r, w), !.chain = ExtraChain(r, w),
                                 !.csize = 2 + (IF level = 1 THEN Len(ExtraChain(r, w)) ELSE 0),
                                 !.osize = 2, !.tail = <<9, 8>>])

OverrideInputs == {OverrideInput(level, r) : level \in 1..3, r \in OverrideChains}

HeaderInputs ==
    MethodInputs \cup EndInputs \cup ChecksumInputs \cup CrcInputs \cup SkipInputs
                 \cup LengthInputs \cup Level3Inputs \cup OverrideInputs

\* ------------------------------------------------------------------------
\* State.  The reader and what its caller holds:
\*   reader    the LhaDecodeReader
\*   hand      the streams the caller holds outside the reader
\*   errv      the LhaDecodeError last returned and not yet unwrapped
\*   last      the last call and what it returned: op and st, the count a
\*             read returned or a next_file discarded (n), the buffer or
\*             sink length (buflen), the stream handed to the parser and
\*             where it stood (arg, at; at is -1 when none was), or the
\*             decoder handed over (arg)
\* and, for stating properties (no operation reads them):
\*   returned  the bytes successful reads returned since the file began
\*   file      where the body of the current file lies in its stream
\*   arch      the bytes each stream held at first
\*   dropped   the streams a call dropped with the decoder it replaced
\*   parsed    the header the reader was last given by a parse
\*   ended     whether the last new, begin_new or next_file that returned
\*             Ok found no more headers
\* A decoder driven alone:
\*   dinput    its compressed input
\*   ddec      the decoder
\*   dout      the bytes its successful fill_buffer calls produced
\*   dst       the result of the last fill_buffer
\*   dresumed  whether a call has resumed a copy left by the call before
\* A header parsed alone:
\*   hin       how the bytes of the first stream were put together
\* ------------------------------------------------------------------------
VARIABLES reader, hand, errv, last, returned, file, arch, dropped, parsed, ended,
          dinput, ddec, dout, dst, dresumed, hin

readerVars == <<reader, hand, errv, last, returned, file, arch, dropped, parsed, ended>>
decVars == <<dinput, ddec, dout, dst, dresumed>>
vars == <<reader, hand, errv, last, returned, file, arch, dropped, parsed, ended,
          dinput, ddec, dout, dst, dresumed, hin>>

\* the number of bytes read from a stream so far
Pos(s) == Len(arch[s.id]) - Len(s.buf)

NoFile == [valid |-> FALSE, id |-> 0, hdr_end |-> 0, csize |-> 0]

\* the body a decoder made by new_from_header is about to read
FileOf(hdr, decoder) ==
    Bind(Decoder_into_inner(decoder).inner, LAMBDA rd :
    [valid |-> TRUE, id |-> rd.id, hdr_end |-> Pos(rd), csize |-> hdr.compressed_size])

\* the stream a reader holds, as a set
StreamsOf(r) == IF r.decoder = <<>> THEN {} ELSE {Decoder_into_inner(r.decoder[1]).inner}

Last(op, st, n, buflen, at, rdid, arg) ==
    [op |-> op, st |-> st, n |-> n, buflen |-> buflen, at |-> at, rdid |-> rdid, arg |-> arg]

NoDecoder == [kind |-> "None"]
NoInput == [kind |-> "None", bytes |-> <<>>, limit |-> 0]

InitReader ==
    /\ reader = LhaDecodeReader_default
    /\ errv = <<>>
    /\ last = Last("default", "Ok", 0, 0, 0, 0, <<>>)
    /\ returned = <<>>
    /\ file = NoFile
    /\ dropped = {}
    /\ parsed = LhaHeader_default
    /\ ended = FALSE

InitNoDecoder ==
    /\ dinput = NoInput
    /\ ddec = NoDecoder
    /\ dout = <<>>
    /\ dst = "Ok"
    /\ dresumed = FALSE

\* The caller starts with a reader made by Default and two streams.
Init ==
    /\ InitReader
    /\ \E pair \in StreamPairs :
          /\ hand = {pair[1], pair[2]}
          /\ arch = (1 :> pair[1].buf) @@ (2 :> pair[2].buf)
    /\ InitNoDecoder
    /\ hin = NoHeaderInput

\* LhaDecodeReader::new(rd), the reader made replacing one without a stream
New(rd) ==
    /\ rd \in hand
    /\ errv = <<>>
    /\ is_absent(reader)
    /\ \E r \in {LhaDecodeReader_new(rd)} :
       /\ reader' = IF r.st = "Ok" THEN r.self[1] ELSE reader
       /\ errv' = r.err
       /\ file' = IF r.st = "Ok" THEN FileOf(r.self[1].header, r.self[1].decoder[1]) ELSE file
       /\ returned' = IF r.st = "Ok" THEN <<>> ELSE returned
       /\ parsed' = IF r.st = "Ok" THEN r.self[1].header ELSE parsed
       /\ ended' = IF r.st = "Ok" THEN FALSE ELSE ended
       /\ last' = Last("new", IF r.st = "Ok" THEN "Ok(true)" ELSE "Err", 0, 0, Pos(rd), rd.id,
                       <<rd>>)
    /\ hand' = hand \ {rd}
    /\ UNCHANGED <<arch, dropped, decVars, hin>>

BeginNew(rd) ==
    /\ rd \in hand
    /\ errv = <<>>
    /\ \E r \in {begin_new(reader, rd)} :
       /\ reader' = r.self
       /\ errv' = r.err
       /\ file' = IF r.st = "Ok(true)" THEN FileOf(r.self.header, r.self.decoder[1])
                  ELSE IF r.st = "Ok(false)" THEN NoFile ELSE file
       /\ returned' = IF r.st = "Err" THEN returned ELSE <<>>
       /\ parsed' = IF r.st = "Ok(true)" THEN r.self.header ELSE parsed
       /\ ended' = IF r.st = "Err" THEN ended ELSE (r.st = "Ok(false)")
       /\ dropped' = IF r.st = "Err" THEN dropped
                     ELSE dropped \cup {s.id : s \in StreamsOf(reader)}
       /\ last' = Last("begin_new", r.st, 0, 0, Pos(rd), rd.id, <<rd>>)
    /\ hand' = hand \ {rd}
    /\ UNCHANGED <<arch, decVars, hin>>

\* The caller parses a header and makes the decoder by new_from_header, may
\* decode up to MaxPreuse bytes with it, and hands both to the reader.
BeginWithHeaderAndDecoder(rd, k) ==
    /\ rd \in hand
    /\ errv = <<>>
    /\ \E h \in {LhaHeader_read(rd)} :
       /\ h.st = "Some"
       /\ \E d0 \in {new_from_header(h.header, h.rd)} :
            \E d \in {IF k = 0 THEN d0 ELSE Decoder_fill_buffer(d0, k).d} :
               /\ reader' = begin_with_header_and_decoder(reader, h.header, d)
               /\ file' = FileOf(h.header, d0)
               /\ parsed' = h.header
               /\ last' = Last("begin_with_header_and_decoder", "Ok", 0, 0, 0, rd.id, <<d>>)
    /\ returned' = <<>>
    /\ dropped' = dropped \cup {s.id : s \in StreamsOf(reader)}
    /\ hand' = hand \ {rd}
    /\ UNCHANGED <<errv, arch, ended, decVars, hin>>

\* next_file (BUF the sink of the build) and next_file_with_sink::<BUF>,
\* called as documented on a reader that holds a stream
NextFile(BUF) ==
    /\ is_present(reader)
    /\ errv = <<>>
    /\ \E r \in {next_file_with_sink(reader, BUF)} :
       /\ reader' = r.self
       /\ errv' = r.err
       /\ file' = IF r.st = "Ok(true)" THEN FileOf(r.self.header, r.self.decoder[1]) ELSE NoFile
       /\ returned' = IF r.st = "Err" THEN returned ELSE <<>>
       /\ parsed' = IF r.st = "Ok(true)" THEN r.self.header ELSE parsed
       /\ ended' = IF r.st = "Err" THEN ended ELSE (r.st = "Ok(false)")
       /\ last' = Last("next_file", r.st,
                       IF r.from = <<>> THEN 0
                       ELSE Pos(r.from[1]) - Pos(Decoder_into_inner(reader.decoder[1]).inner),
                       BUF,
                       IF r.from = <<>> THEN 0 - 1 ELSE Pos(r.from[1]),
                       Decoder_into_inner(reader.decoder[1]).inner.id, r.from)
    /\ UNCHANGED <<hand, arch, dropped, decVars, hin>>

\* read, called as documented on a reader that holds a stream
Read(buflen) ==
    /\ is_present(reader)
    /\ \E r \in {read(reader, buflen)} :
       /\ reader' = r.self
       /\ returned' = IF r.st = "Ok" THEN returned \o r.bytes ELSE returned
       /\ last' = Last("read", r.st, r.n, buflen, 0, 0, <<>>)
    /\ UNCHANGED <<hand, errv, file, arch, dropped, parsed, ended, decVars, hin>>

CrcCheck ==
    /\ \E r \in {crc_check(reader)} :
       last' = Last("crc_check", r.st, r.value, 0, 0, 0, <<>>)
    /\ UNCHANGED <<reader, hand, errv, returned, file, arch, dropped, parsed, ended, decVars, hin>>

TakeInner ==
    /\ \E r \in {take_inner(reader)} :
       /\ reader' = r.self
       /\ hand' = hand \cup {r.res[i] : i \in DOMAIN r.res}
    /\ file' = NoFile
    /\ returned' = <<>>
    /\ last' = Last("take_inner", "Ok", 0, 0, 0, 0, <<>>)
    /\ UNCHANGED <<errv, arch, dropped, parsed, ended, decVars, hin>>

\* into_inner consumes the reader; the caller goes on with one made by Default
IntoInner ==
    /\ is_present(reader)
    /\ hand' = hand \cup {into_inner(reader).res[1]}
    /\ reader' = LhaDecodeReader_default
    /\ file' = NoFile
    /\ returned' = <<>>
    /\ parsed' = LhaHeader_default
    /\ ended' = FALSE
    /\ last' = Last("into_inner", "Ok", 0, 0, 0, 0, <<>>)
    /\ UNCHANGED <<errv, arch, dropped, decVars, hin>>

\* LhaDecodeError::into_inner of the error returned last
ErrIntoInner ==
    /\ errv # <<>>
    /\ hand' = hand \cup {LhaDecodeError_into_inner(errv[1])}
    /\ errv' = <<>>
    /\ last' = Last("error_into_inner", "Ok", 0, 0, 0, 0, <<>>)
    /\ UNCHANGED <<reader, returned, file, arch, dropped, parsed, ended, decVars, hin>>

Next ==
    \/ \E rd \in hand : New(rd)
    \/ \E rd \in hand : BeginNew(rd)
    \/ \E rd \in hand, k \in 0..MaxPreuse : BeginWithHeaderAndDecoder(rd, k)
    \/ \E BUF \in {SmallSink, NO_STD_SINK, STD_SINK} : NextFile(BUF)
    \/ \E buflen \in 0..MaxBuf : Read(buflen)
    \/ CrcCheck
    \/ TakeInner
    \/ IntoInner
    \/ ErrIntoInner

Spec == Init /\ [][Next]_vars

\* ------------------------------------------------------------------------
\* A decoder alone: fill_buffer called with buffers of any lengths.
\* ------------------------------------------------------------------------
DecoderOf(inp) ==
    new_from_compression(inp.kind,
                         Read_take([id |-> 1, buf |-> inp.bytes, good |-> NoFault], inp.limit))

\* a copy left unfinished by the call before
CopyPending(d) ==
    d.kind \notin {"Passthrough", "Unsupported", "None"} /\ d.copy_progress # <<>>

InitDec ==
    /\ \E inp \in DecInputs :
          /\ dinput = inp
          /\ ddec = DecoderOf(inp)
    /\ dout = <<>>
    /\ dst = "Ok"
    /\ dresumed = FALSE
    /\ InitReader
    /\ hand = {}
    /\ arch = (1 :> <<>>) @@ (2 :> <<>>)
    /\ hin = NoHeaderInput

FillBuffer(n) ==
    /\ dst = "Ok"
    /\ Len(dout) + n <= MaxTotal
    /\ \E r \in {Decoder_fill_buffer(ddec, n)} :
       /\ ddec' = r.d
       /\ dst' = r.st
       /\ dout' = IF r.st = "Ok" THEN dout \o r.out ELSE dout
       /\ dresumed' = (dresumed \/ (r.st = "Ok" /\ n > 0 /\ CopyPending(ddec)))
    /\ UNCHANGED <<dinput, readerVars, hin>>

NextDec == \E n \in 0..MaxChunk : FillBuffer(n)

SpecDec == InitDec /\ [][NextDec]_vars

\* ------------------------------------------------------------------------
\* An LhaV2Decoder alone, whose caller calls fill_buffer again after an
\* error was returned.
\* ------------------------------------------------------------------------
\* -lh5- streams whose first block header is cut short or wrong after its
\* count of 1: at the count, by a table size of 31, by a command tree of one
\* code of length 1 (then a bit 1, or a bit 0); and a block of three
\* literals followed by the count, 5, of a second block
BrokenBlocks ==
    { [kind |-> "Lh5", bytes |-> <<0, 1>>, limit |-> 2],
      [kind |-> "Lh5", bytes |-> <<0, 1, 248>>, limit |-> 3],
      [kind |-> "Lh5", bytes |-> <<0, 1, 0, 192, 48>>, limit |-> 5],
      [kind |-> "Lh5", bytes |-> <<0, 1, 0, 192, 32>>, limit |-> 5],
      [kind |-> "Lh5", bytes |-> <<0, 3, 0, 0, 4, 16, 0, 0, 80>>, limit |-> 9] }

\* the w bits of v, most significant first, and the bytes of a bit sequence
\* filled up with zero bits
BitsOf(v, w) == [i \in 1..w |-> NatBit(v, w - i)]

BytesOfBits(bits) ==
    Bind(bits \o Zeros((8 - (Len(bits) % 8)) % 8), LAMBDA b :
    [k \in 1..(Len(b) \div 8) |-> BitsVal(SubSeq(b, 8 * k - 7, 8 * k))])

\* code lengths 1, 2, 3, 4, 5, 6, 6, 6, ... in 3 bits each for the indices
\* from (counted from 0) up to to
TempLen(i) == Min(i + 1, 6)

RECURSIVE TempLenBits(_, _)
TempLenBits(from, to) ==
    IF from >= to THEN <<>> ELSE BitsOf(TempLen(from), 3) \o TempLenBits(from + 1, to)

\* the table sizes and the skips of a temporary tree
TempSizes == 0..31
TempSkips == 0..3

\* an -lh5- stream that ends with its first temporary tree: the count 1, the
\* table size, then a code of 5 bits for the size 0, two bits for a size over 20,
\* and else the lengths of the first three indices, the skip and the
\* lengths of the indices from 3 + skip
TempInput(num_codes, skip) ==
    Bind(BytesOfBits(BitsOf(1, 16) \o BitsOf(num_codes, 5)
                     \o (IF num_codes = 0 THEN BitsOf(skip, 5)
                         ELSE IF num_codes > NUM_TEMP_CODELEN THEN BitsOf(skip, 2)
                         ELSE TempLenBits(0, Min(num_codes, 3)) \o BitsOf(skip, 2)
                                  \o TempLenBits(3 + skip, num_codes))), LAMBDA b :
    [kind |-> "Lh5", bytes |-> b, limit |-> Len(b)])

TempInputs == {TempInput(n, skip) : n \in TempSizes, skip \in TempSkips}

BlockInputs ==
    {inp \in DecInputs : inp.kind \in {"Lh5", "Lh7", "Lhx"}} \cup BrokenBlocks \cup TempInputs

InitBlk ==
    /\ \E inp \in BlockInputs :
          /\ dinput = inp
          /\ ddec = DecoderOf(inp)
    /\ dout = <<>>
    /\ dst = "Ok"
    /\ dresumed = FALSE
    /\ InitReader
    /\ hand = {}
    /\ arch = (1 :> <<>>) @@ (2 :> <<>>)
    /\ hin = NoHeaderInput

\* fill_buffer returned an LhaError (the decoder is still there to call)
ReturnedErr == dst \notin {"Ok", "Panic", "UB"}

\* fill_buffer called on the decoder that returned an error
FillBufferAgain(n) ==
    /\ ReturnedErr
    /\ Len(dout) + n <= MaxTotal
    /\ \E r \in {Decoder_fill_buffer(ddec, n)} :
       /\ ddec' = r.d
       /\ dst' = r.st
       /\ dout' = IF r.st = "Ok" THEN dout \o r.out ELSE dout
       /\ dresumed' = (dresumed \/ (r.st = "Ok" /\ n > 0 /\ CopyPending(ddec)))
    /\ UNCHANGED <<dinput, readerVars, hin>>

NextBlk ==
    \/ \E n \in 0..MaxChunk : FillBuffer(n)
    \/ \E n \in 0..MaxChunk : FillBufferAgain(n)

SpecBlk == InitBlk /\ [][NextBlk]_vars

\* ------------------------------------------------------------------------
\* A DynHuffTree alone beside a bit stream, as the test dyntree_works has
\* it: values are counted with increment_for_value and read with
\* read_entry.  The tree starts as new left it and first counts the runs of
\* its input, <<value, k>> for k calls of increment_for_value(value), at
\* most MaxRun calls a step; the runs bring its root up to REORDER_LIMIT.
\* ------------------------------------------------------------------------
\* k calls of increment_for_value(value) (the first half, then the second)
RECURSIVE DynHuffTree_repeat(_, _, _)
DynHuffTree_repeat(t, value, k) ==
    IF k > 1
    THEN Bind(DynHuffTree_repeat(t, value, k \div 2), LAMBDA a :
         IF a.nodes[0].freq >= 0 THEN DynHuffTree_repeat(a, value, k - k \div 2) ELSE a)
    ELSE IF k <= 0 THEN t ELSE increment_for_value(t, value)

\* the increments from the root frequency of a new tree to REORDER_LIMIT
ToReorder == REORDER_LIMIT - NUM_LEAVES

DynRuns ==
    { <<>>,
      <<<<313, ToReorder - 1>>>>,
      <<<<313, ToReorder>>>>,
      <<<<0, 10000>>, <<156, 10000>>, <<313, ToReorder - 20001>>>>,
      <<<<7, 3>>, <<8, 3>>, <<9, 2>>, <<200, 1>>, <<7, ToReorder - 10>>>> }

DynStreams == {<<0, 0>>, <<255, 255>>, <<165, 60>>}

DynValues == {0, 156, 313}

DynInputs ==
    {[kind |-> "Dyn", bytes |-> b, limit |-> Len(b), runs |-> r] : b \in DynStreams, r \in DynRuns}

InitDyn ==
    /\ \E inp \in DynInputs :
          /\ dinput = inp
          /\ ddec = [kind |-> "Dyn",
                     command_tree |-> DynHuffTree_new,
                     runs |-> inp.runs,
                     bit_reader |-> BitStream_new(Read_take([id |-> 1, buf |-> inp.bytes,
                                                             good |-> NoFault], inp.limit))]
    /\ dout = <<>>
    /\ dst = "Ok"
    /\ dresumed = FALSE
    /\ InitReader
    /\ hand = {}
    /\ arch = (1 :> <<>>) @@ (2 :> <<>>)
    /\ hin = NoHeaderInput

\* tree.increment_for_value(value)
\* for _ in 0..n { tree.increment_for_value(value) }
DynCount ==
    /\ ddec.runs # <<>>
    /\ \E n \in {Min(Head(ddec.runs)[2], MaxRun)} :
          ddec' = [ddec EXCEPT
                     !.command_tree = DynHuffTree_repeat(@, Head(ddec.runs)[1], n),
                     !.runs = IF Head(@)[2] = n THEN Tail(@)
                              ELSE <<<<Head(@)[1], Head(@)[2] - n>>>> \o Tail(@)]
    /\ UNCHANGED <<dinput, dout, dst, dresumed, readerVars, hin>>

DynIncrement(value) ==
    /\ ddec.runs = <<>>
    /\ Len(dout) < MaxCalls
    /\ ddec' = [ddec EXCEPT !.command_tree = increment_for_value(@, value)]
    /\ dout' = Append(dout, value)
    /\ UNCHANGED <<dinput, dst, dresumed, readerVars, hin>>

\* tree.read_entry(&mut stream)
DynReadEntry ==
    /\ ddec.runs = <<>>
    /\ Len(dout) < MaxCalls
    /\ dst = "Ok"
    /\ \E r \in {DynHuffTree_read_entry(ddec.command_tree, ddec.bit_reader)} :
       /\ ddec' = [ddec EXCEPT !.command_tree = r.t, !.bit_reader = r.bs]
       /\ dst' = r.st
       /\ dout' = IF r.st = "Ok" THEN Append(dout, r.value) ELSE dout
    /\ UNCHANGED <<dinput, dresumed, readerVars, hin>>

NextDyn ==
    \/ DynCount
    \/ \E value \in DynValues : DynIncrement(value)
    \/ DynReadEntry

SpecDyn == InitDyn /\ [][NextDyn]_vars

\* ------------------------------------------------------------------------
\* A BitStream alone over a slice of bytes: read_bit and read_bits of any
\* widths until one fails.  dout holds the bits returned so far, last the
\* call made last: its width n, the bits consumed before it (at) and the
\* bits it returned (arg).
\* ------------------------------------------------------------------------
BitInputs ==
    { <<>>, <<178>>, <<76, 112, 240>>, <<1, 2, 3, 4, 5, 6, 7, 8>>,
      <<255, 0, 129, 66, 36, 24, 231, 165, 90>>,
      <<76, 112, 240, 124, 15, 192, 127, 0, 255, 0, 127, 192, 15, 252, 0, 127, 240>> }

\* widths of read_bits::<usize>
BitWidths == {0, 1, 3, 8, 9, 16, 31, 32, 33, 63, 64}

\* the bits of a byte sequence, the highest bit of every byte first
BitsOfBytes(bytes) ==
    [i \in 1..(8 * Len(bytes)) |-> ByteBits(bytes[((i - 1) \div 8) + 1])[((i - 1) % 8) + 1]]

InitBits ==
    /\ \E b \in BitInputs :
          /\ dinput = [kind |-> "Bits", bytes |-> b, limit |-> Len(b)]
          /\ ddec = [kind |-> "Bits",
                     bit_reader |-> BitStream_new(Read_take([id |-> 1, buf |-> b,
                                                             good |-> NoFault], Len(b)))]
    /\ dout = <<>>
    /\ dst = "Ok"
    /\ dresumed = FALSE
    /\ InitReader
    /\ hand = {}
    /\ arch = (1 :> <<>>) @@ (2 :> <<>>)
    /\ hin = NoHeaderInput

\* stream.read_bit()
BitsReadBit ==
    /\ dst = "Ok"
    /\ \E r \in {read_bit(ddec.bit_reader)} :
       /\ ddec' = [ddec EXCEPT !.bit_reader = r.bs]
       /\ dst' = r.st
       /\ dout' = IF r.st = "Ok" THEN dout \o r.bits ELSE dout
       /\ last' = Last("read_bit", r.st, 1, 0, Len(dout), 0, r.bits)
    /\ UNCHANGED <<dinput, dresumed, reader, hand, errv, returned, file, arch, dropped, parsed,
                   ended, hin>>

\* stream.read_bits::<usize>(n)
BitsReadBits(n) ==
    /\ dst = "Ok"
    /\ \E r \in {read_bits(ddec.bit_reader, n)} :
       /\ ddec' = [ddec EXCEPT !.bit_reader = r.bs]
       /\ dst' = r.st
       /\ dout' = IF r.st = "Ok" THEN dout \o r.bits ELSE dout
       /\ last' = Last("read_bits", r.st, n, 0, Len(dout), 0, r.bits)
    /\ UNCHANGED <<dinput, dresumed, reader, hand, errv, returned, file, arch, dropped, parsed,
                   ended, hin>>

NextBits ==
    \/ BitsReadBit
    \/ \E n \in BitWidths : BitsReadBits(n)

SpecBits == InitBits /\ [][NextBits]_vars

\* ------------------------------------------------------------------------
\* A HuffTree alone, as the test hufftree_works has it: build_tree with a
\* table of code lengths, then read_entry with bit streams of the caller.
\* dinput holds the table; ddec holds the tree, what build_tree returned
\* and the stream as read_entry left it; last holds the call made last
\* (n: the value returned, arg: the bytes of the stream).
\* ------------------------------------------------------------------------
RECURSIVE SeqsUpTo(_, _)
SeqsUpTo(S, n) ==
    IF n = 0 THEN {<<>>}
    ELSE Bind(SeqsUpTo(S, n - 1), LAMBDA shorter :
         shorter \cup {Append(q, e) : q \in {r \in shorter : Len(r) = n - 1}, e \in S})

\* tables with a length so deep that the branches run out of indices, a
\* complete table as deep, and a complete table of too many entries
DeepTables ==
    { <<1, 14>>, <<1, 15>>, <<1, 17>>, <<1, 255>>, <<2, 2, 2, 17>>,
      [i \in 1..17 |-> Min(i, 16)],
      [i \in 1..((MAX_INDEX \div 2) + 1) |-> IF i <= 2 THEN 1 ELSE 0] }

TreeTables == SeqsUpTo(0..MaxLength, MaxSymbols) \cup DeepTables

\* one byte for every path of MaxLength bits, two bytes for the deep paths,
\* and no byte at all
TreeStreams ==
    {<<(k * 256) \div Pow2(MaxLength)>> : k \in 0..(Pow2(MaxLength) - 1)}
       \cup {<<>>, <<255, 255>>, <<255, 254>>, <<191, 255>>}

TreeStream(bytes) ==
    BitStream_new(Read_take([id |-> 1, buf |-> bytes, good |-> NoFault], Len(bytes)))

InitTree ==
    /\ \E value_lengths \in TreeTables :
          dinput = [kind |-> "Tree", lengths |-> value_lengths]
    /\ ddec = [kind |-> "Tree", tree |-> HuffTree_with_capacity, st |-> "New",
               bit_reader |-> TreeStream(<<>>)]
    /\ dout = <<>>
    /\ dst = "Ok"
    /\ dresumed = FALSE
    /\ InitReader
    /\ hand = {}
    /\ arch = (1 :> <<>>) @@ (2 :> <<>>)
    /\ hin = NoHeaderInput

\* tree.build_tree(&value_lengths)
TreeBuild ==
    /\ ddec.st = "New"
    /\ \E r \in {build_tree(ddec.tree, dinput.lengths)} :
       /\ ddec' = [ddec EXCEPT !.tree = r.tree, !.st = r.st]
       /\ last' = Last("build_tree", r.st, 0, 0, 0, 0, <<>>)
    /\ UNCHANGED <<dinput, dout, dst, dresumed, reader, hand, errv, returned, file, arch,
                   dropped, parsed, ended, hin>>

\* tree.read_entry(&mut path) on a tree that was built
TreeReadEntry(bytes) ==
    /\ ddec.st = "Ok"
    /\ \E r \in {HuffTree_read_entry(ddec.tree, TreeStream(bytes))} :
       /\ ddec' = [ddec EXCEPT !.bit_reader = r.bs]
       /\ last' = Last("read_entry", r.st, r.value, 0, 0, 0, bytes)
    /\ UNCHANGED <<dinput, dout, dst, dresumed, reader, hand, errv, returned, file, arch,
                   dropped, parsed, ended, hin>>

NextTree ==
    \/ TreeBuild
    \/ \E bytes \in TreeStreams : TreeReadEntry(bytes)

SpecTree == InitTree /\ [][NextTree]_vars

\* ------------------------------------------------------------------------
\* A ring buffer alone, as the test ringbuf_works has it: a ring of 32
\* bytes, its cursor set, then pushed single bytes and copied from its
\* history.  dout holds every byte pushed since, copies included;
\* last holds the call made last (n: bytes asked of the iterator, at: the
\* offset, arg: the bytes yielded).
\* ------------------------------------------------------------------------
TEST_RING_BUFFER_SIZE == 32

RingStarts == {0, TEST_RING_BUFFER_SIZE - 2}

\* (offset, bytes taken): a run of one byte, a period of two, the whole ring
\* and one more, an offset past the size, fewer bytes than the offset spans
RingCopies == {<<0, 3>>, <<1, 5>>, <<TEST_RING_BUFFER_SIZE - 1, TEST_RING_BUFFER_SIZE + 1>>,
               <<TEST_RING_BUFFER_SIZE + 1, 2>>, <<2, 2>>}

InitRing ==
    /\ \E i \in RingStarts :
          /\ dinput = [kind |-> "Ring", start |-> i]
          /\ ddec = [kind |-> "Ring", calls |-> 0,
                     ringbuf |-> Ring_set_cursor(Ring_default(TEST_RING_BUFFER_SIZE), i)]
    /\ dout = <<>>
    /\ dst = "Ok"
    /\ dresumed = FALSE
    /\ InitReader
    /\ hand = {}
    /\ arch = (1 :> <<>>) @@ (2 :> <<>>)
    /\ hin = NoHeaderInput

\* buffer.push(byte)
RingPush(byte) ==
    /\ ddec.calls < MaxRingCalls
    /\ ddec' = [ddec EXCEPT !.calls = @ + 1, !.ringbuf = Ring_push(@, byte)]
    /\ dout' = Append(dout, byte)
    /\ last' = Last("push", "Ok", 1, 0, 0, 0, <<byte>>)
    /\ UNCHANGED <<dinput, dst, dresumed, reader, hand, errv, returned, file, arch,
                   dropped, parsed, ended, hin>>

\* buffer.iter_from_offset(offset).take(n).collect()
RingCopy(offset, n) ==
    /\ ddec.calls < MaxRingCalls
    /\ \E r \in {HistoryIter_take(ddec.ringbuf, iter_from_offset(ddec.ringbuf, offset), n)} :
       /\ ddec' = [ddec EXCEPT !.calls = @ + 1, !.ringbuf = r.ring]
       /\ dout' = dout \o r.bytes
       /\ last' = Last("iter_from_offset", "Ok", n, 0, offset, 0, r.bytes)
    /\ UNCHANGED <<dinput, dst, dresumed, reader, hand, errv, returned, file, arch,
                   dropped, parsed, ended, hin>>

NextRing ==
    \/ \E byte \in {65, 66} : RingPush(byte)
    \/ \E c \in RingCopies : RingCopy(c[1], c[2])

SpecRing == InitRing /\ [][NextRing]_vars

\* ------------------------------------------------------------------------
\* The offset of an Lh1Decoder alone: decode_offset of every 9-bit value,
\* and read_offset from a stream of the 9 bits and five bits more.  dinput
\* holds the 9-bit value; ddec holds the pair decode_offset returned; last
\* holds the call made last (n: the offset returned, at: the five bits
\* that follow the nine in the stream).
\* ------------------------------------------------------------------------
InitOff ==
    /\ \E bits9 \in 0..511 : dinput = [kind |-> "Off", bits9 |-> bits9]
    /\ ddec = [kind |-> "Off", pair |-> <<>>]
    /\ dout = <<>>
    /\ dst = "Ok"
    /\ dresumed = FALSE
    /\ InitReader
    /\ hand = {}
    /\ arch = (1 :> <<>>) @@ (2 :> <<>>)
    /\ hin = NoHeaderInput

\* decode_offset(bits9)
OffDecode ==
    /\ ddec.pair = <<>>
    /\ ddec' = [ddec EXCEPT !.pair = decode_offset(dinput.bits9)]
    /\ last' = Last("decode_offset", "Ok", 0, 0, 0, 0, <<>>)
    /\ UNCHANGED <<dinput, dout, dst, dresumed, reader, hand, errv, returned, file, arch,
                   dropped, parsed, ended, hin>>

\* decoder.read_offset() with the bits of bits9 and of more next in the stream
OffRead(more) ==
    /\ last.op = "decode_offset"
    /\ \E r \in {Lh1_read_offset(TreeStream(BytesOfBits(BitsOf(dinput.bits9, 9)
                                                             \o BitsOf(more, 5))))} :
          last' = Last("read_offset", r.st, r.offset, 0, more, 0, <<>>)
    /\ UNCHANGED <<dinput, ddec, dout, dst, dresumed, reader, hand, errv, returned, file,
                   arch, dropped, parsed, ended, hin>>

NextOff ==
    \/ OffDecode
    \/ \E more \in 0..31 : OffRead(more)

SpecOff == InitOff /\ [][NextOff]_vars

\* ------------------------------------------------------------------------
\* An Lz5Decoder alone over streams of more than eight commands, filled by
\* calls of 0 to MaxChunk bytes.  The variables are those of SpecDec.
\* ------------------------------------------------------------------------
\* a copy command: position and count less 3
Lz5Copy(pos, count) == <<pos % 256, (pos \div 256) * 16 + count>>

Lz5Streams ==
    { \* eight literals, a second bitmap, literals
      <<255, 1, 2, 3, 4, 5, 6, 7, 8, 255, 9, 10, 11, 12>>,
      \* eight literals and no more
      <<255, 1, 2, 3, 4, 5, 6, 7, 8>>,
      \* eight literals, and a second bitmap with nothing after it
      <<255, 1, 2, 3, 4, 5, 6, 7, 8, 255>>,
      \* a copy of 3, seven literals, a second bitmap: a literal, a copy of 4
      <<254>> \o Lz5Copy(4078, 0) \o <<1, 2, 3, 4, 5, 6, 7, 1, 9>> \o Lz5Copy(0, 1),
      \* copies and literals by turns, the eighth command a copy of 3, then
      \* a second bitmap
      <<85, 65>> \o Lz5Copy(4078, 0) \o <<66>> \o Lz5Copy(4079, 0) \o <<67>>
         \o Lz5Copy(4080, 0) \o <<68>> \o Lz5Copy(4081, 0) \o <<2, 0, 69>>,
      \* a literal, a copy of 18, the source ending within the next command
      <<5, 65>> \o Lz5Copy(4078, 15) \o <<66, 7>>,
      \* eight copies of 3 and a ninth
      <<0>> \o Lz5Copy(1, 0) \o Lz5Copy(2, 0) \o Lz5Copy(3, 0) \o Lz5Copy(4, 0)
          \o <<0>> \o Lz5Copy(5, 0) }

Lz5Inputs ==
    {[kind |-> "Lz5", bytes |-> b, limit |-> Len(b)] : b \in Lz5Streams}

InitLz5 ==
    /\ \E inp \in Lz5Inputs :
          /\ dinput = inp
          /\ ddec = DecoderOf(inp)
    /\ dout = <<>>
    /\ dst = "Ok"
    /\ dresumed = FALSE
    /\ InitReader
    /\ hand = {}
    /\ arch = (1 :> <<>>) @@ (2 :> <<>>)
    /\ hin = NoHeaderInput

\* decoder.fill_buffer(&mut buf) with a buf of n bytes
Lz5Fill(n) ==
    /\ dst = "Ok"
    /\ Len(dout) + n <= MaxLz5Total
    /\ \E r \in {Lz5_fill_buffer(ddec, n)} :
       /\ ddec' = r.d
       /\ dst' = r.st
       /\ dout' = IF r.st = "Ok" THEN dout \o r.out ELSE dout
       /\ dresumed' = (dresumed \/ (r.st = "Ok" /\ n > 0 /\ CopyPending(ddec)))
    /\ UNCHANGED <<dinput, readerVars, hin>>

NextLz5 == \E n \in 0..MaxChunk : Lz5Fill(n)

SpecLz5 == InitLz5 /\ [][NextLz5]_vars

\* ------------------------------------------------------------------------
\* read_code_length alone: a bit stream that begins with a code length (a
\* 3-bit value v and, after a 7, a number of 1-bits) and either goes on with
\* a 0-bit and the code length 5 or ends with the last 1-bit.  dinput holds
\* the parts of the stream, ddec the bit reader, dout the lengths returned,
\* dst what the last call returned.
\* ------------------------------------------------------------------------
Ones(n) == [i \in 1..n |-> 1]

\* the numbers of 1-bits after a 7: few, and about the 248 that reach 255
LenOnes == (0..24) \cup (240..252)

\* the numbers of 1-bits that end a stream at a whole byte
LenOnesToEnd == {5, 13, 245, 253}

LenInputs ==
    {[kind |-> "Len", v |-> v, ones |-> 0, zero |-> TRUE] : v \in 0..6}
       \cup {[kind |-> "Len", v |-> 7, ones |-> n, zero |-> TRUE] : n \in LenOnes}
       \cup {[kind |-> "Len", v |-> 7, ones |-> n, zero |-> FALSE] : n \in LenOnesToEnd}

LenBits(inp) ==
    BitsOf(inp.v, 3)
       \o (IF inp.v # 7 THEN <<1, 0, 1>>
           ELSE IF inp.zero THEN Ones(inp.ones) \o <<0, 1, 0, 1>>
           ELSE Ones(inp.ones))

InitLen ==
    /\ \E inp \in LenInputs :
          /\ dinput = inp
          /\ ddec = [kind |-> "Len", bit_reader |-> TreeStream(BytesOfBits(LenBits(inp)))]
    /\ dout = <<>>
    /\ dst = "Ok"
    /\ dresumed = FALSE
    /\ InitReader
    /\ hand = {}
    /\ arch = (1 :> <<>>) @@ (2 :> <<>>)
    /\ hin = NoHeaderInput

\* self.read_code_length()
LenRead ==
    /\ dst = "Ok"
    /\ Len(dout) < 2
    /\ \E r \in {read_code_length(ddec.bit_reader)} :
       /\ ddec' = [ddec EXCEPT !.bit_reader = r.bs]
       /\ dst' = r.st
       /\ dout' = IF r.st = "Ok" THEN Append(dout, r.len) ELSE dout
    /\ UNCHANGED <<dinput, dresumed, readerVars, hin>>

NextLen == LenRead

SpecLen == InitLen /\ [][NextLen]_vars

\* ------------------------------------------------------------------------
\* An LhaV2Decoder alone over streams of whole blocks, filled while
\* fill_buffer returns Ok.
\* ------------------------------------------------------------------------
\* the bits of a block of count c whose trees have one value each: every
\* command is the literal code
LiteralBlock(c, code) ==
    BitsOf(c, 16) \o Zeros(10) \o Zeros(9) \o BitsOf(code, 9) \o Zeros(8)

BlocksInput(bits) ==
    Bind(BytesOfBits(bits), LAMBDA b : [kind |-> "Lh5", bytes |-> b, limit |-> Len(b)])

\* "AAE" in five blocks, three of them of count 0
CountedBlocks ==
    BlocksInput(LiteralBlock(0, 66) \o LiteralBlock(2, 65) \o LiteralBlock(0, 67)
                \o LiteralBlock(0, 68) \o LiteralBlock(1, 69))

\* and streams of blocks of one command each, of a last block of count 0,
\* and of a block longer than the stream has commands for
CountedStreams ==
    { CountedBlocks,
      BlocksInput(LiteralBlock(1, 65) \o LiteralBlock(1, 66) \o LiteralBlock(1, 67)
                  \o LiteralBlock(1, 68)),
      BlocksInput(LiteralBlock(3, 65) \o LiteralBlock(0, 66)),
      BlocksInput(LiteralBlock(0, 65) \o LiteralBlock(0, 66)),
      BlocksInput(LiteralBlock(1, 65) \o LiteralBlock(9, 66)),
      BlocksInput(LiteralBlock(2, 65) \o LiteralBlock(2, 66) \o LiteralBlock(3, 67)),
      BlocksInput(LiteralBlock(0, 65) \o LiteralBlock(4, 66) \o LiteralBlock(0, 67)
                  \o LiteralBlock(3, 68)),
      BlocksInput(LiteralBlock(5, 65) \o LiteralBlock(0, 66) \o LiteralBlock(1, 67)) }

CommandInputs == {inp \in DecInputs : inp.kind \in {"Lh5", "Lh7", "Lhx"}} \cup CountedStreams

InitCmd ==
    /\ \E inp \in CommandInputs :
          /\ dinput = inp
          /\ ddec = DecoderOf(inp)
    /\ dout = <<>>
    /\ dst = "Ok"
    /\ dresumed = FALSE
    /\ InitReader
    /\ hand = {}
    /\ arch = (1 :> <<>>) @@ (2 :> <<>>)
    /\ hin = NoHeaderInput

SpecCmd == InitCmd /\ [][NextDec]_vars

\* ------------------------------------------------------------------------
\* A header alone: the caller holds one stream that starts with the bytes
\* of a header input, and makes or begins a reader with it.
\* ------------------------------------------------------------------------
InitHdr ==
    /\ InitReader
    /\ InitNoDecoder
    /\ \E d \in HeaderInputs :
          /\ hin = d
          /\ hand = {[id |-> 1, buf |-> HeaderStream(d), good |-> NoFault]}
          /\ arch = (1 :> HeaderStream(d)) @@ (2 :> <<>>)

\* header().iter_extra() walked to its end: arg holds the items
IterExtra ==
    /\ \E r \in {ExtraHeaderIter_collect(iter_extra(LhaDecodeReader_header(reader)), <<>>)} :
          last' = Last("iter_extra", r.st, Len(r.items), 0, 0, 0, r.items)
    /\ UNCHANGED <<reader, hand, errv, returned, file, arch, dropped, parsed, ended, decVars, hin>>

NextHdr ==
    \/ \E rd \in hand : New(rd)
    \/ \E rd \in hand : BeginNew(rd)
    \/ NextFile(NO_STD_SINK)
    \/ TakeInner
    \/ ErrIntoInner
    \/ IterExtra

SpecHdr == InitHdr /\ [][NextHdr]_vars

\* ------------------------------------------------------------------------
\* Properties.
\* ------------------------------------------------------------------------
\* the Take a reader's decoder reads through, and the stream below it
Limited(r) == Decoder_into_inner(r.decoder[1])
Inner(r) == Decoder_into_inner(r.decoder[1]).inner

\* the reader holds a decoder as new_from_header makes it over its stream
FreshDecoder(r) ==
    is_present(r) /\ r.decoder[1] = new_from_header(r.header, Inner(r))

\* rd has no byte left, or its next byte is 0 and can be read
AtEnd(rd) == rd.buf = <<>> \/ (rd.buf[1] = 0 /\ rd.good # 0)

\* the stream below the reader holds the rest of the body of the current
\* file, and its device gives it
BodyWhole ==
    /\ is_present(reader)
    /\ file.valid
    /\ Len(arch[file.id]) >= file.hdr_end + file.csize
    /\ \/ Inner(reader).good = NoFault
       \/ Inner(reader).good >= file.hdr_end + file.csize - Pos(Inner(reader))

\* the holders of the stream id, among the reader, the error returned last
\* and the caller
Holders(id) ==
      (IF \E s \in StreamsOf(reader) : s.id = id THEN 1 ELSE 0)
    + (IF errv # <<>> /\ errv[1].read.id = id THEN 1 ELSE 0)
    + Cardinality({s \in hand : s.id = id})

\* C1: the bytes and the decoder state that fill_buffer calls of any lengths
\* leave are those a single fill_buffer of the summed length leaves.
C1_ChunkedFillIsSingleFill ==
    (dinput.kind # "None" /\ dst = "Ok") =>
        Decoder_fill_buffer(DecoderOf(dinput), Len(dout))
            = [d |-> ddec, st |-> "Ok", out |-> dout]

\* a call has resumed a copy that the call before left unfinished
C1_Witness == dresumed /\ dst = "Ok" /\ Len(dout) >= 3

\* C2: a successful read returns min(buf.len(), original_size - output_length)
\* and advances output_length by it; output_length never exceeds original_size.
C2_ReadIsClamped ==
    /\ [](reader.output_length <= reader.header.original_size)
    /\ [][(last'.op = "read" /\ last'.st = "Ok") =>
            /\ last'.n = Min(last'.buflen,
                             reader.header.original_size - reader.output_length)
            /\ reader'.output_length = reader.output_length + last'.n
            /\ Len(returned') = Len(returned) + last'.n]_vars

\* a read was given a buffer longer than what is left of the file
C2_Witness ==
    /\ last.op = "read" /\ last.st = "Ok"
    /\ 0 < last.n /\ last.n < last.buflen
    /\ LhaDecodeReader_len(reader) = 0

\* C3: the CRC state is the CRC-16/ARC of the bytes the successful reads of the
\* current file returned, however they were chunked; crc_check returns
\* Ok(file_crc) exactly when it equals file_crc and the checksum error
\* otherwise, and changes nothing.
C3_CrcCheckOfReturned ==
    /\ [](reader.crc = Crc16_digest(Crc16_default, returned))
    /\ [](last.op = "crc_check" =>
            /\ last.st \in {"Ok", "Checksum(crc16 mismatch)"}
            /\ (last.st = "Ok") <=>
                   (Crc16_digest(Crc16_default, returned) = reader.header.file_crc)
            /\ (last.st = "Ok") => (last.n = reader.header.file_crc))
    /\ [][last'.op = "crc_check" =>
            /\ reader' = reader
            /\ returned' = returned
            /\ hand' = hand
            /\ errv' = errv]_vars

\* crc_check succeeded on a file read whole in several reads
C3_Witness ==
    /\ last.op = "crc_check" /\ last.st = "Ok"
    /\ Len(returned) > MaxBuf
    /\ Len(returned) = reader.header.original_size

\* C4: from the end of a file's header on the decoder reads at most
\* compressed_size bytes of the stream: the limit of its Take starts at
\* compressed_size, only decreases, is never below 0, and the stream never
\* stands past the end of the body.
C4_DecoderWithinBody ==
    /\ []((is_present(reader) /\ file.valid) =>
            /\ 0 <= Limited(reader).limit
            /\ Limited(reader).limit <= file.csize
            /\ file.hdr_end <= Pos(Inner(reader))
            /\ Pos(Inner(reader)) <= file.hdr_end + file.csize
            /\ (Inner(reader).good = NoFault) =>
                   (Pos(Inner(reader)) - file.hdr_end = file.csize - Limited(reader).limit))
    /\ []((last.op \in {"new", "begin_new", "next_file"} /\ last.st = "Ok(true)") =>
            /\ Limited(reader).limit = reader.header.compressed_size
            /\ file.csize = reader.header.compressed_size
            /\ Pos(Inner(reader)) = file.hdr_end)
    /\ [][(last'.op = "read" /\ is_present(reader)) =>
            Limited(reader').limit <= Limited(reader).limit]_vars

\* a decoder that refills its bit buffer a word at a time has read the body
\* to its end, and the stream goes on behind it
C4_Witness ==
    /\ is_present(reader) /\ file.valid
    /\ reader.decoder[1].kind \in {"Lzs", "Lh1", "Lh5"}
    /\ last.op = "read" /\ last.st = "Ok"
    /\ Limited(reader).limit = 0
    /\ file.csize < BITBUF_BYTESIZE
    /\ Len(Inner(reader).buf) > 0

\* C5: next_file, called while the stream still holds the whole body of the
\* current file, hands the stream to the header parser exactly compressed_size
\* bytes after the end of the current header.
C5_NextFileSkipsBody ==
    [][(last'.op = "next_file" /\ BodyWhole) =>
          /\ last'.at = file.hdr_end + file.csize
          /\ last'.n = Limited(reader).limit]_vars

\* next_file discarded a body in several reads of its sink
C5_Witness ==
    /\ last.op = "next_file" /\ last.st = "Ok(true)"
    /\ last.buflen = SmallSink
    /\ last.n > SmallSink

\* C6 (as the code has it): after next_file or begin_new returns Ok(true),
\* output_length is 0, the CRC state is the initial one and the decoder is
\* newly constructed; after begin_with_header_and_decoder, output_length is 0,
\* the CRC state is the initial one and the decoder is the one handed over,
\* as it was.
C6_FreshAfterBegin ==
    /\ (last.op \in {"next_file", "begin_new"} /\ last.st = "Ok(true)") =>
          /\ reader.output_length = 0
          /\ reader.crc = Crc16_default
          /\ FreshDecoder(reader)
    /\ (last.op = "begin_with_header_and_decoder") =>
          /\ reader.output_length = 0
          /\ reader.crc = Crc16_default
          /\ reader.decoder = last.arg

\* begin_with_header_and_decoder was handed a decoder that had decoded
C6_Witness ==
    /\ last.op = "begin_with_header_and_decoder"
    /\ ~FreshDecoder(reader)

\* C6 as stated: the decoder is newly constructed after
\* begin_with_header_and_decoder too.
C6_AsStated ==
    (\/ (last.op \in {"next_file", "begin_new"} /\ last.st = "Ok(true)")
     \/ last.op = "begin_with_header_and_decoder") =>
        /\ reader.output_length = 0
        /\ reader.crc = Crc16_default
        /\ FreshDecoder(reader)

C9_BeginNewErrKeepsReader ==
    [][(last'.op = "begin_new" /\ last'.st = "Err") =>
          /\ reader' = reader
          /\ errv' # <<>>
          /\ errv'[1].read.id = last'.rdid
          /\ last'.rdid \notin {s.id : s \in StreamsOf(reader')}]_vars

\* begin_new failed on a reader that had returned bytes of its file
C9_Witness ==
    /\ last.op = "begin_new" /\ last.st = "Err"
    /\ is_present(reader)
    /\ reader.output_length > 0
    /\ reader.crc # Crc16_default

\* C10: while the decoder is the Unsupported one, a read with a buffer of any
\* length returns the Decompress error and leaves the reader and its stream as
\* they were; next_file then skips the body as for any file.
C10_UnsupportedReadsFail ==
    [][(is_present(reader) /\ reader.decoder[1].kind = "Unsupported") =>
          /\ (last'.op = "read") =>
                /\ last'.st = "Decompress(unsupported compression method)"
                /\ last'.n = 0
                /\ reader' = reader
                /\ returned' = returned
          /\ (last'.op = "next_file" /\ BodyWhole) =>
                /\ last'.at = file.hdr_end + file.csize
                /\ last'.n = file.csize]_vars

\* a read failed on a file of an identifier that is not recognized,
\* and one on a directory
C10_Witness ==
    /\ is_present(reader) /\ file.valid
    /\ reader.decoder[1].kind = "Unsupported"
    /\ last.op = "read" /\ last.st = "Decompress(unsupported compression method)"
    /\ \/ file.csize > 0 /\ last.buflen = 0
       \/ reader.header.original_size = 0 /\ last.buflen > 0

\* the identifiers a decoder is built for: -lh0-, -lz4-, -pm0-, -lzs-, -lz5-,
\* -lh1-, -lh4-, -lh5-, -lh6-, -lh7- and -lhx-
C11_SupportedIds ==
    { MethodId(104, 48), MethodId(122, 52), PmId(48), MethodId(122, 115), MethodId(122, 53),
      MethodId(104, 49), MethodId(104, 52), MethodId(104, 53), MethodId(104, 54),
      MethodId(104, 55), MethodId(104, 120) }

C12_ReadAtEndIsIdle ==
    [][(/\ is_present(reader)
        /\ is_decoder_supported(reader)
        /\ reader.output_length = reader.header.original_size
        /\ last'.op = "read") =>
          /\ last'.st = "Ok"
          /\ last'.n = 0
          /\ reader' = reader
          /\ returned' = returned]_vars

\* a read with a buffer that is not empty returned Ok(0) at the end of a
\* file of -lh5- whose decoder has blocks behind it and body bytes left
C12_Witness ==
    /\ is_present(reader) /\ file.valid
    /\ reader.decoder[1].kind = "Lh5"
    /\ reader.header.original_size > 0
    /\ reader.output_length = reader.header.original_size
    /\ last.op = "read" /\ last.st = "Ok" /\ last.n = 0 /\ last.buflen > 0
    /\ returned # <<>>

\* C13: a read that returns an error adds nothing to output_length and
\* nothing to the CRC; what earlier reads returned stays counted: after the
\* failure output_length is the number of the bytes returned so far and the
\* CRC is the digest of those bytes, so that crc_check reports a mismatch
\* unless that digest equals file_crc.
C13_ReadErrCommitsNothing ==
    [][(last'.op = "read" /\ last'.st # "Ok") =>
          /\ reader'.output_length = reader.output_length
          /\ reader'.crc = reader.crc
          /\ returned' = returned
          /\ reader'.output_length = Len(returned')
          /\ reader'.crc = Crc16_digest(Crc16_default, returned')
          /\ (crc_check(reader').st = "Ok") <=>
                (Crc16_digest(Crc16_default, returned') = reader'.header.file_crc)]_vars

\* a read failed on a supported file after reads had returned a part of
\* it, and crc_check reports a mismatch
C13_Witness ==
    /\ is_present(reader) /\ file.valid
    /\ is_decoder_supported(reader)
    /\ last.op = "read" /\ last.st # "Ok"
    /\ returned # <<>>
    /\ reader.output_length < reader.header.original_size
    /\ crc_check(reader).st = "Checksum(crc16 mismatch)"

\* C14: a successful read returns 0 only when the buffer is empty or
\* output_length already equals original_size; a successful read with a
\* buffer that is not empty before the end of the file leaves original_size
\* as it was and brings output_length nearer to it by at least one byte, so
\* that a loop of such reads ends after at most original_size of them.
C14_ReadZeroOnlyAtEnd ==
    [][(last'.op = "read" /\ last'.st = "Ok") =>
          /\ (last'.n = 0) =>
                \/ last'.buflen = 0
                \/ reader.output_length = reader.header.original_size
          /\ reader'.header.original_size = reader.header.original_size
          /\ reader'.output_length <= reader'.header.original_size
          /\ (last'.buflen > 0 /\ reader.output_length < reader.header.original_size) =>
                /\ last'.n >= 1
                /\ reader'.output_length = reader.output_length + last'.n]_vars

\* a read with an empty buffer returned Ok(0) in the middle of a file
C14_Witness ==
    /\ is_present(reader) /\ file.valid
    /\ last.op = "read" /\ last.st = "Ok" /\ last.n = 0 /\ last.buflen = 0
    /\ returned # <<>>
    /\ reader.output_length < reader.header.original_size

\* the bytes LhaHeader::read takes from a stream that AtEnd holds of
C15_Consumed(rd) == IF rd.buf = <<>> THEN 0 ELSE 1

\* C15: LhaHeader::read returns Ok(None) having consumed one byte when the
\* first byte is 0 and none when the stream is at its end; LhaDecodeReader::new
\* then fails with HeaderParse("a header is missing"), and the error holds
\* the stream, positioned right after the bytes consumed.
C15_MissingHeader ==
    /\ \A rd \in hand :
          AtEnd(rd) =>
             /\ LhaHeader_read(rd).st = "None"
             /\ LhaHeader_read(rd).rd.id = rd.id
             /\ Pos(LhaHeader_read(rd).rd) = Pos(rd) + C15_Consumed(rd)
    /\ (last.op = "new" /\ AtEnd(last.arg[1])) =>
          /\ last.st = "Err"
          /\ is_absent(reader)
          /\ errv # <<>>
          /\ errv[1].source = "HeaderParse(a header is missing)"
          /\ errv[1].read.id = last.rdid
          /\ Pos(errv[1].read) = last.at + C15_Consumed(last.arg[1])

\* new failed on a stream whose first byte is 0 and that holds more bytes:
\* the stream in the error stands after that byte
C15_Witness ==
    /\ last.op = "new" /\ last.st = "Err"
    /\ last.arg[1].buf # <<>> /\ last.arg[1].buf[1] = 0
    /\ errv # <<>> /\ errv[1].source = "HeaderParse(a header is missing)"
    /\ Pos(errv[1].read) = last.at + 1
    /\ errv[1].read.buf # <<>>

\* the sum modulo 256 of the bytes of a sequence
RECURSIVE C16_Sum(_)
C16_Sum(bytes) == IF bytes = <<>> THEN 0 ELSE (Head(bytes) + C16_Sum(Tail(bytes))) % 256

\* the last call was a parse of a header
C16_Parsed == last.op \in {"new", "begin_new"}

\* C16: a level 0 or level 1 header parses only if its second byte is the
\* sum modulo 256 of the bytes from the third one to the end of the base
\* header, 2 + header_len bytes from the start (in level 1 the first
\* extra-header length is among them and the extra headers are not); a
\* header that parses once that byte is set right fails with
\* HeaderParse("invalid header level checksum") when it is wrong.
C16_LevelChecksum ==
    C16_Parsed =>
       LET b == last.arg[1].buf IN
       /\ (last.st = "Ok(true)" /\ reader.header.level < 2) =>
             b[2] = C16_Sum(SubSeq(b, 3, 2 + b[1]))
       /\ (/\ Len(b) >= 21 /\ b[1] # 0 /\ b[21] < 2
           /\ Len(b) >= 2 + b[1]
           /\ b[2] # C16_Sum(SubSeq(b, 3, 2 + b[1]))
           /\ LhaHeader_read([last.arg[1] EXCEPT
                                 !.buf = [b EXCEPT ![2] = C16_Sum(SubSeq(b, 3, 2 + b[1]))]]).st
                 = "Some") =>
             /\ last.st = "Err"
             /\ errv # <<>>
             /\ errv[1].source = "HeaderParse(invalid header level checksum)"
       /\ (hin \in ChecksumInputs /\ last.at = 0) =>
             (last.st = "Ok(true)" <=> hin.csum_add = 0)

\* a level 1 header with a file name, an extended area and an extra header
\* was parsed
C16_Witness ==
    /\ C16_Parsed /\ last.st = "Ok(true)"
    /\ is_present(reader)
    /\ reader.header.level = 1
    /\ \/ reader.header.extra_headers # <<>>
       \/ reader.header.filename # <<>> /\ reader.header.extended_area # <<>>
    /\ last.arg[1].buf[2] # 0

\* the 16-bit value at the CRC field of the Common record of the header the
\* stream began with, and the header bytes with that field zero
C17_Field == Len(HeaderBase(hin)) + hin.crcat

C17_Stored(b) == b[C17_Field] + 256 * b[C17_Field + 1]

C17_Zeroed(b, n) == [SubSeq(b, 1, n) EXCEPT ![C17_Field] = 0, ![C17_Field + 1] = 0]

C17_TwoCommon == hin.chain = ExtraChain(<<RecCommon, RecCommon>>, 2)

\* C17: a header with a Common record parses only if the 16-bit value in
\* that record is the CRC-16 (ARC) of all the header bytes read, from the
\* first byte through the last extra header and the padding byte of level
\* 2, with the two bytes of the value taken as zero; a header that parses
\* under the right value fails with HeaderParse("wrong header CRC-16
\* checksum") under another, and a second Common record gives
\* HeaderParse("double common CRC-16 header").
C17_HeaderCrc ==
    (C16_Parsed /\ last.at = 0 /\ hin.crcat > 0) =>
       LET b == last.arg[1].buf IN
       /\ (last.st = "Ok(true)") =>
             C17_Stored(b) = Crc16_digest(0, C17_Zeroed(b, file.hdr_end))
       /\ (~C17_TwoCommon /\ hin.crc_add # 0) =>
             /\ C17_Stored(b) # Crc16_digest(0, C17_Zeroed(b, Len(HeaderBytes(hin))))
             /\ LhaHeader_read([last.arg[1] EXCEPT
                                   !.buf = HeaderStream([hin EXCEPT !.crc_add = 0])]).st = "Some"
             /\ last.st = "Err"
             /\ errv # <<>>
             /\ errv[1].source = "HeaderParse(wrong header CRC-16 checksum)"
       /\ (~C17_TwoCommon /\ hin.crc_add = 0) => last.st = "Ok(true)"
       /\ C17_TwoCommon =>
             /\ last.st = "Err"
             /\ errv # <<>>
             /\ errv[1].source = "HeaderParse(double common CRC-16 header)"

\* a level 2 header with a Common record after another record and with a
\* padding byte was parsed
C17_Witness ==
    /\ C16_Parsed /\ last.at = 0 /\ last.st = "Ok(true)"
    /\ hin.level = 2 /\ hin.crcat > 2 /\ hin.pad # <<>>
    /\ file.valid /\ file.hdr_end = Len(HeaderBytes(hin))
    /\ C17_Stored(last.arg[1].buf) # 0

\* the places in a chain of extra headers of the next-length fields, w bytes
\* each, of the records from the one of len bytes at start on, as the bytes
\* of the chain give them
RECURSIVE C18_NextLengths(_, _, _, _)
C18_NextLengths(chain, start, len, w) ==
    IF len < w + 1 \/ start + len - 1 > Len(chain) THEN {}
    ELSE (start + len - w .. start + len - 1)
         \cup C18_NextLengths(chain, start + len,
                              from_le_bytes(SubSeq(chain, start + len - w, start + len - 1)), w)

\* the places of the CRC field of the Common record of the header the
\* stream began with
C18_CrcField == IF hin.crcat > 0 THEN {hin.crcat, hin.crcat + 1} ELSE {}

\* C18: after a successful parse header.extra_headers holds the extra
\* headers as they were read from the stream, but for the two bytes of the
\* CRC field at offsets 1..3 of the Common record, which are zero; every
\* other byte, the next-length field at the end of each record included, is
\* the byte read.
C18_ExtraHeadersAsRead ==
    (C16_Parsed /\ last.at = 0 /\ last.st = "Ok(true)" /\ hin.level < 4) =>
       LET eh == reader.header.extra_headers
           base == Len(HeaderBase(hin))
           chain == SubSeq(last.arg[1].buf, base + 1, base + Len(eh))
           w == IF hin.level = 3 THEN 4 ELSE 2 IN
       /\ \A i \in 1..Len(eh) :
             eh[i] = IF i \in C18_CrcField THEN 0 ELSE chain[i]
       /\ \A i \in C18_NextLengths(chain, 1, reader.header.first_header_len, w) :
             eh[i] = chain[i]

\* C19: the compressed_size of a parsed level 1 header is the compressed
\* size in its bytes less the number of the bytes of its extra headers, the
\* length fields among them; it is never below 0, and it is the size in the
\* bytes when first_header_len is 0.  A chain of more bytes than that size
\* is rejected with a HeaderParse error.
C19_SkipSize ==
    C16_Parsed =>
       LET b == last.arg[1].buf IN
       /\ (last.st = "Ok(true)" /\ reader.header.level = 1) =>
             LET wire == b[8] + 256 * b[9] + 65536 * b[10] + 16777216 * b[11]
                 extra == file.hdr_end - last.at - (2 + b[1]) IN
             /\ extra = Len(reader.header.extra_headers)
             /\ reader.header.compressed_size = wire - extra
             /\ reader.header.compressed_size >= 0
             /\ Limited(reader).limit = wire - extra
             /\ (reader.header.first_header_len = 0) =>
                   reader.header.compressed_size = wire
       /\ (hin \in SkipInputs /\ last.at = 0) =>
             IF Len(hin.chain) > hin.csize
             THEN /\ last.st = "Err"
                  /\ errv # <<>>
                  /\ errv[1].source \in {"HeaderParse(wrong header size)",
                                         "HeaderParse(wrong length of skip size)"}
             ELSE last.st = "Ok(true)"

\* a level 1 header with two extra headers was parsed, and bytes of the
\* body are left
C19_Witness ==
    /\ C16_Parsed /\ last.st = "Ok(true)"
    /\ is_present(reader)
    /\ reader.header.level = 1
    /\ Len(reader.header.extra_headers) > reader.header.first_header_len
    /\ reader.header.compressed_size > 0

\* C20: a level 2 header that is right in all else, of the total length L in
\* its first two bytes and of C bytes through its last extra header, parses
\* if and only if L = C, L = C - 2 or L = C + 1, whatever the chain of extra
\* headers, an empty one and one of a single record too; one padding byte
\* is consumed after the extra headers when L = C + 1 and none otherwise.
C20_TotalLength ==
    (C16_Parsed /\ last.at = 0 /\ hin \in LengthInputs) =>
       LET b == last.arg[1].buf
           L == b[1] + 256 * b[2]
           C == Len(HeaderBase(hin)) + Len(hin.chain) IN
       /\ last.st = "Ok(true)" <=> L \in {C, C - 2, C + 1}
       /\ (last.st = "Ok(true)") =>
             file.hdr_end = IF L = C + 1 THEN C + 1 ELSE C

\* C21: a level 3 header parses only if its first two bytes are (4, 0) and
\* its 32-bit total header length is the number of the bytes consumed for
\* the header, all extra headers included; a header of any other total
\* length is rejected with a HeaderParse error.
C21_Level3Length ==
    C16_Parsed =>
       LET b == last.arg[1].buf IN
       /\ (last.st = "Ok(true)" /\ reader.header.level = 3) =>
             /\ b[1] = 4 /\ b[2] = 0
             /\ from_le_bytes(SubSeq(b, 25, 28)) = file.hdr_end - last.at
       /\ (hin \in Level3Lengths /\ last.at = 0 /\ hin.dL # 0) =>
             /\ last.st = "Err"
             /\ errv # <<>>
             /\ errv[1].source \in {"HeaderParse(wrong header size)",
                                    "HeaderParse(wrong length of headers)"}

\* the chains of extra headers the inputs are made of, as lists of records
C22_Chains ==
    {<<>>, <<RecName>>, <<RecName, RecDir>>, <<RecDir>>, <<RecCommon>>, <<RecCommon, RecName>>,
     <<RecCommonInfo, RecDir>>, <<RecName, RecCommon>>}

RECURSIVE C22_TotalLen(_)
C22_TotalLen(items) == IF items = <<>> THEN 0 ELSE Len(Head(items)) + C22_TotalLen(Tail(items))

\* C22: on the header of a successful parse iter_extra() comes to its end
\* without a panic and yields, in their order, the records the parser read:
\* each item is a record without its next-length field and has at least its
\* identifier byte, and the lengths of the items with one length field for
\* each (2 bytes, 4 on level 3) add up to extra_headers.len().
C22_IterExtra ==
    (last.op = "iter_extra" /\ is_present(reader) /\ file.valid) =>
       LET w == IF reader.header.level = 3 THEN 4 ELSE 2
           items == last.arg IN
       /\ last.st = "None"
       /\ \A i \in DOMAIN items : Len(items[i]) >= 1
       /\ C22_TotalLen(items) + w * Len(items) = Len(reader.header.extra_headers)
       /\ ExtraChain(items, w) = reader.header.extra_headers
       /\ \A r \in C22_Chains :
             (file.hdr_end = Len(HeaderBytes(hin)) /\ hin.chain = ExtraChain(r, w)) => items = r

\* the iterator yielded the two records of a level 3 header
C22_Witness ==
    /\ last.op = "iter_extra" /\ last.st = "None"
    /\ is_present(reader) /\ file.valid
    /\ reader.header.level = 3
    /\ Len(last.arg) = 2
    /\ Len(last.arg[1]) # Len(last.arg[2])

\* the attributes and the sizes after the records recs, as the claim has
\* them: a record counts with its full payload after the identifier byte
RECURSIVE C23_Attrs(_, _)
C23_Attrs(recs, attrs) ==
    IF recs = <<>> THEN attrs
    ELSE C23_Attrs(Tail(recs),
                   IF /\ Head(recs)[1] \in {EXT_HEADER_MSDOS_ATTRS, EXT_HEADER_EXT_ATTRS}
                      /\ Len(Head(recs)) - 1 >= 2
                   THEN from_le_bytes(SubSeq(Head(recs), 2, 3)) ELSE attrs)

RECURSIVE C23_Sizes(_, _, _)
C23_Sizes(recs, level, sizes) ==
    IF recs = <<>> THEN sizes
    ELSE C23_Sizes(Tail(recs), level,
                   IF /\ Head(recs)[1] = EXT_HEADER_MSDOS_SIZE
                      /\ level >= 2
                      /\ Len(Head(recs)) - 1 >= 16
                   THEN <<from_le_bytes(SubSeq(Head(recs), 2, 9)),
                          from_le_bytes(SubSeq(Head(recs), 10, 17))>>
                   ELSE sizes)

\* C23: an extra header overrides a field only when it carries the full
\* payload after its identifier byte, the next-length field not counted:
\* msdos_attrs is replaced by a 0x40 or 0x7F record of at least 2 payload
\* bytes, compressed_size and original_size by a 0x42 record of at least 16
\* on level 2 or 3; a shorter record leaves the values of the base header.
C23_Override ==
    (C16_Parsed /\ last.at = 0) =>
       \A level \in 1..3, r \in OverrideChains :
          hin = OverrideInput(level, r) =>
             /\ last.st = "Ok(true)"
             /\ reader.header.msdos_attrs = C23_Attrs(r, MSDOS_ARCHIVE)
             /\ <<reader.header.compressed_size, reader.header.original_size>>
                   = C23_Sizes(r, level, <<2, 2>>)

\* a tree read_entry can walk: it has a root, and both children of every
\* branch lie inside the node array
C24_Walkable(tree) ==
    /\ tree # <<>>
    /\ \A i \in 1..Len(tree) : is_leaf(tree[i]) \/ tree[i] + 1 < Len(tree)

\* C24: every read_entry of an LhaV2Decoder walks a single leaf or the whole
\* result of a successful build_tree: no read goes past the node array, and
\* whenever fill_buffer can be called with commands of the block left to
\* read, after an error in the middle of begin_new_block too, the command
\* tree and the offset tree have a root and all their children.
C24_TreesWalked ==
    /\ dst # "UB"
    /\ (dst # "Panic" /\ ddec.remaining_commands > 0) =>
          C24_Walkable(ddec.command_tree) /\ C24_Walkable(ddec.offset_tree)

\* the code lengths the claim has read_temp_tree read
C25_Lengths(num_codes, skip) ==
    [k \in 1..num_codes |->
        IF k - 1 < Min(num_codes, 3) \/ k - 1 >= 3 + skip THEN TempLen(k - 1) ELSE 0]

\* C25: for every table size 1..20 and every skip read_temp_tree reads the
\* lengths of the indices [0, min(num_codes, 3)) and [3 + skip, num_codes),
\* none when 3 + skip >= num_codes, leaves the others 0 and returns Ok or an
\* LhaError without aborting; a size over 20 gives a Decompress error, and
\* the size 0 a tree of the single value of the next 5 bits.  (Here after
\* the first fill_buffer on a stream that ends with its temporary tree.)
C25_TempTree ==
    \A n \in TempSizes, skip \in TempSkips :
       (dinput = TempInput(n, skip) /\ dst # "Ok" /\ ddec.remaining_commands = 1) =>
          /\ dst \notin {"Panic", "UB"}
          /\ n > NUM_TEMP_CODELEN =>
                dst = "Decompress(temporary codelen table has invalid size)"
          /\ n = 0 => (dst = "Io(UnexpectedEof)" /\ ddec.offset_tree = set_single(skip))
          /\ n \in 1..NUM_TEMP_CODELEN =>
                \E bt \in {build_tree(<<>>, C25_Lengths(n, skip))} :
                   /\ ddec.offset_tree = bt.tree
                   /\ dst = (IF bt.st = "Ok" THEN "Io(UnexpectedEof)" ELSE Decompress(bt.st))

\* the decoder d is an LhaV2Decoder whose ring has size cells, all of them
\* spaces, and the cursor at 0
C26_Ring(d, size) ==
    /\ d.kind \in {"Lh5", "Lh7", "Lhx"}
    /\ d.ringbuf.size = size
    /\ d.ringbuf.cursor = 0
    /\ \A k \in 0..(size - 1) : Ring_index(d.ringbuf, k) = SPACE

\* the decoder made for the header parsed last has rings of the sizes lh5,
\* lh7 and lhx for the methods -lh4-/-lh5-, -lh6-/-lh7- and -lhx-
C26_Rings(lh5, lh7, lhx) ==
    (C16_Parsed /\ last.st = "Ok(true)" /\ is_present(reader)) =>
       \E m \in {CompressionMethod_try_from(reader.header.compression)} :
          /\ m \in {"Lh4", "Lh5"} => C26_Ring(reader.decoder[1], lh5)
          /\ m \in {"Lh6", "Lh7"} => C26_Ring(reader.decoder[1], lh7)
          /\ m = "Lhx" => C26_Ring(reader.decoder[1], lhx)

\* C26 as stated: the history ring of the LhV2 decoder has 16 KiB for -lh4-
\* and -lh5-, 128 KiB for -lh6- and -lh7- and 1 MiB for -lhx-, and a new
\* decoder has the whole ring filled with spaces and the cursor at 0.
C26_AsStated == C26_Rings(16384, 131072, 1048576)

\* C26, amended: the history ring of the LhV2 decoder has 8 KiB for -lh4-
\* and -lh5-, 64 KiB for -lh6- and -lh7- and 512 KiB for -lhx-, and a new
\* decoder has the whole ring filled with spaces and the cursor at 0.
C26_RingCapacity == C26_Rings(8192, 65536, 524288)

\* a decoder was made for a header of the method -lh6-
C26_Witness ==
    /\ C16_Parsed /\ last.st = "Ok(true)" /\ is_present(reader)
    /\ CompressionMethod_try_from(reader.header.compression) = "Lh6"
    /\ reader.decoder[1].kind = "Lh7"
    /\ reader.decoder[1].ringbuf.size = 65536

\* the nodes of the tree alone
C27_Nodes == ddec.command_tree.nodes

\* C27: after new and after any calls of read_entry and increment_for_value,
\* a rebuild among them too, the frequencies never increase from index 0
\* on, two adjacent nodes have the same group exactly when they have the
\* same frequency, and leaders[g] is the index of the first node of group g.
C27_GroupsByFrequency ==
    ddec.kind = "Dyn" =>
       /\ \A i \in 1..(NUM_NODES - 1) :
             /\ C27_Nodes[i].freq <= C27_Nodes[i - 1].freq
             /\ (C27_Nodes[i].group = C27_Nodes[i - 1].group)
                   <=> (C27_Nodes[i].freq = C27_Nodes[i - 1].freq)
       /\ \A i \in 0..(NUM_NODES - 1) :
             /\ C27_Nodes[i].group \in 0..(NUM_NODES - 1)
             /\ ddec.command_tree.groups.leaders[C27_Nodes[i].group] <= i
             /\ (i = 0 \/ C27_Nodes[i].group # C27_Nodes[i - 1].group)
                   => ddec.command_tree.groups.leaders[C27_Nodes[i].group] = i

\* a tree that was rebuilt and then counted a value
C27_Witness ==
    /\ ddec.kind = "Dyn"
    /\ dinput.runs # <<>>
    /\ Len(dout) >= 2
    /\ C27_Nodes[0].freq < REORDER_LIMIT - 1000
    /\ \E i \in 1..(NUM_NODES - 1) : C27_Nodes[i].group = C27_Nodes[i - 1].group

\* C28: the 627 nodes are one binary tree rooted at 0: the root is a branch,
\* each of the 314 values is the value of exactly one leaf and leaves[v] is
\* its index, every branch has an even non-zero child index c with its
\* children at c and c - 1, whose parent fields point back, no two branches
\* share children, and the frequency of a branch is the sum of those of its
\* two children.  (leaves[v] is a leaf of v and every leaf is the one leaves
\* has for its value, so there is one leaf for a value; a child has the one
\* parent its field names, so no two branches share it; children lie after
\* their branch, so every node hangs from the root.)
C28_OneTree ==
    ddec.kind = "Dyn" =>
       /\ DOMAIN C27_Nodes = 0..(NUM_NODES - 1)
       /\ DOMAIN ddec.command_tree.leaves = 0..(NUM_LEAVES - 1)
       /\ ~is_leaf(C27_Nodes[0].entry)
       /\ C27_Nodes[0].parent = 0
       /\ \A v \in 0..(NUM_LEAVES - 1) :
             /\ ddec.command_tree.leaves[v] \in 0..(NUM_NODES - 1)
             /\ C27_Nodes[ddec.command_tree.leaves[v]].entry = TreeEntry_leaf(v)
       /\ \A i \in 0..(NUM_NODES - 1) :
             \/ /\ is_leaf(C27_Nodes[i].entry)
                /\ as_value(C27_Nodes[i].entry) < NUM_LEAVES
                /\ ddec.command_tree.leaves[as_value(C27_Nodes[i].entry)] = i
             \/ \E c \in {C27_Nodes[i].entry} :
                   /\ c # 0 /\ c % 2 = 0 /\ c < NUM_NODES
                   /\ c - 1 > i
                   /\ C27_Nodes[c].parent = i /\ C27_Nodes[c - 1].parent = i
                   /\ C27_Nodes[i].freq = C27_Nodes[c].freq + C27_Nodes[c - 1].freq

\* a tree that was rebuilt, the leaf of the value counted last not where new
\* put it
C28_Witness ==
    /\ ddec.kind = "Dyn"
    /\ dinput.runs # <<>>
    /\ Len(dout) >= 2
    /\ C27_Nodes[0].freq < REORDER_LIMIT - 1000
    /\ \E v \in {dout[Len(dout)]} :
          ddec.command_tree.leaves[v] # NUM_NODES - 1 - v

\* C29: for any bytes and any reads of read_bit and read_bits(n), n from 0
\* to the width of the result, that ask for no more than 8 * len bits in
\* all, the values returned, joined most significant bit first, are the
\* first bits of the input, across refills of the bit buffer and a last
\* partial word too; read_bits(0) returns 0 and consumes nothing; a read of
\* more bits than remain fails with UnexpectedEof.
C29_BitsInOrder ==
    (ddec.kind = "Bits" /\ last.op \in {"read_bit", "read_bits"}) =>
       \E all \in {BitsOfBytes(dinput.bytes)} :
          /\ Len(dout) <= Len(all)
          /\ dout = SubSeq(all, 1, Len(dout))
          /\ last.n <= Len(all) - last.at =>
                /\ last.st = "Ok" /\ dst = "Ok"
                /\ Len(last.arg) = last.n
                /\ last.arg = SubSeq(all, last.at + 1, last.at + last.n)
                /\ Len(dout) = last.at + last.n
                /\ last.n = 0 => BitsVal(last.arg) = 0
                /\ (last.n = 0 /\ last.at = 0) =>
                      ddec.bit_reader = BitStream_new(Read_take([id |-> 1, buf |-> dinput.bytes,
                                                                 good |-> NoFault],
                                                                Len(dinput.bytes)))
          /\ last.n > Len(all) - last.at =>
                /\ last.st = "Io(UnexpectedEof)" /\ dst = last.st
                /\ Len(dout) = last.at

\* a read of 9 bits got its first bits from the bit buffer and the others
\* from the last, partial word of the stream
C29_Witness ==
    /\ ddec.kind = "Bits" /\ last.op = "read_bits" /\ last.st = "Ok"
    /\ Len(dinput.bytes) = 9
    /\ last.n = 9 /\ last.at = 56
    /\ BitsVal(last.arg) = 330

\* The stream read block by block as the claim has it.  s is [d, left,
\* produced, st]: the decoder, the commands left of the block, the bytes the
\* commands read so far stand for.  One more command is read: block headers
\* first until one has a count above 0 if no command is left, then one
\* command symbol, with its offset if it is a copy.
RECURSIVE C30_Command(_)
C30_Command(s) ==
    IF s.st # "Ok" THEN s
    ELSE IF s.left = 0
    THEN Bind(begin_new_block(s.d), LAMBDA b :
         C30_Command([s EXCEPT !.d = b.d, !.st = b.st, !.left = b.d.remaining_commands]))
    ELSE Bind(HuffTree_read_entry(s.d.command_tree, s.d.bit_reader), LAMBDA e :
         IF e.st # "Ok" THEN [s EXCEPT !.st = e.st]
         ELSE IF e.value <= 255
         THEN [s EXCEPT !.d.bit_reader = e.bs, !.left = @ - 1, !.produced = @ + 1]
         ELSE Bind(LhaV2_read_offset([s.d EXCEPT !.bit_reader = e.bs]), LAMBDA o :
              [s EXCEPT !.d.bit_reader = o.bs, !.st = o.st, !.left = @ - 1,
                        !.produced = @ + (e.value - 256 + 3)]))

\* commands are read while fewer than n bytes are accounted for
RECURSIVE C30_After(_, _)
C30_After(s, n) ==
    IF s.st # "Ok" \/ s.produced >= n THEN s ELSE C30_After(C30_Command(s), n)

\* C30: a block header with a count above 0 is followed by exactly that
\* many command symbols before the next header is read, a literal and a
\* copy counting once each, a copy that goes on over several calls too; a
\* block of count 0 has its three trees read and the next header follows at
\* once; and a header is read only when another command is needed for a
\* byte of output.  (After calls that returned Ok the stream position, the
\* trees and the commands left are those of the stream read by that rule
\* up to the command that gives the last byte returned.)
C30_CommandsPerBlock ==
    (ddec.kind \in {"Lh5", "Lh7", "Lhx"} /\ dst = "Ok") =>
       \E r \in {C30_After([d |-> DecoderOf(dinput), left |-> 0, produced |-> 0, st |-> "Ok"],
                            Len(dout))} :
          /\ r.st = "Ok"
          /\ ddec.bit_reader = r.d.bit_reader
          /\ ddec.remaining_commands = r.left
          /\ ddec.command_tree = r.d.command_tree
          /\ ddec.offset_tree = r.d.offset_tree
          /\ (ddec.copy_progress = <<>>) <=> (r.produced = Len(dout))
          /\ ddec.copy_progress # <<>> => ddec.copy_progress[2] = r.produced - Len(dout)

\* the three bytes of the blocks of counts 0, 2, 0, 0 and 1 were returned
C30_Witness ==
    /\ dinput = CountedBlocks
    /\ dst = "Ok"
    /\ dout = <<65, 65, 69>>
    /\ ddec.remaining_commands = 0

\* ------------------------------------------------------------------------
\* C31
\* ------------------------------------------------------------------------
\* the number of entries of a table with the length len
C31_Count(value_lengths, len) ==
    Cardinality({i \in 1..Len(value_lengths) : value_lengths[i] = len})

\* The Kraft sum of the non-zero lengths against 1, level by level: slots is
\* the number of free nodes at the depth len, 2^len minus the nodes the
\* shorter codes take away.  With more free nodes than entries the sum stays
\* below 1 whatever the deeper lengths are.
RECURSIVE C31_Kraft(_, _, _)
C31_Kraft(value_lengths, len, slots) ==
    IF slots < 0 THEN "Over"
    ELSE IF \A i \in 1..Len(value_lengths) : value_lengths[i] <= len
         THEN (IF slots = 0 THEN "Complete" ELSE "Under")
    ELSE IF slots > Len(value_lengths) THEN "Under"
    ELSE C31_Kraft(value_lengths, len + 1,
                   2 * slots - C31_Count(value_lengths, len + 1))

\* the symbols (from 0) that come before the symbol v in canonical order
C31_Before(value_lengths, v) ==
    {u \in 0..(Len(value_lengths) - 1) :
        /\ value_lengths[u + 1] > 0
        /\ \/ value_lengths[u + 1] < value_lengths[v + 1]
           \/ value_lengths[u + 1] = value_lengths[v + 1] /\ u < v}

RECURSIVE C31_Sum(_, _, _)
C31_Sum(value_lengths, len, us) ==
    IF us = {} THEN 0
    ELSE LET u == CHOOSE e \in us : TRUE IN
         Pow2(len - value_lengths[u + 1]) + C31_Sum(value_lengths, len, us \ {u})

\* the canonical code of the symbol v, first bit first
C31_Code(value_lengths, v) ==
    BitsOf(C31_Sum(value_lengths, value_lengths[v + 1], C31_Before(value_lengths, v)),
           value_lengths[v + 1])

\* the symbols whose code the bits of the stream begin with
C31_Decoded(value_lengths, bytes) ==
    {v \in 0..(Len(value_lengths) - 1) :
        /\ value_lengths[v + 1] > 0
        /\ value_lengths[v + 1] <= 8 * Len(bytes)
        /\ SubSeq(BitsOfBytes(bytes), 1, value_lengths[v + 1]) = C31_Code(value_lengths, v)}

C31_Built == ddec.kind = "Tree" /\ ddec.st # "New"

C32_LeafFreq(t, v) == t.nodes[t.leaves[v]].freq

\* the values of the leaves in the order of the node array
C32_LeafOrder(t) ==
    Bind(SelectSeq([i \in 1..NUM_NODES |-> t.nodes[i - 1].entry], is_leaf), LAMBDA leafs :
         [i \in 1..Len(leafs) |-> as_value(leafs[i])])

\* what rebuild_tree makes of the tree t: every leaf frequency f is
\* (f + 1) / 2 and not 0, and the leaves keep their order
C32_Rebuilt(t) ==
    Bind(rebuild_tree(t), LAMBDA r :
       /\ \A v \in 0..(NUM_LEAVES - 1) :
             /\ C32_LeafFreq(r, v) = (C32_LeafFreq(t, v) + 1) \div 2
             /\ C32_LeafFreq(r, v) > 0
       /\ C32_LeafOrder(r) = C32_LeafOrder(t))

\* no frequency above the limit at the root or past 16 bits anywhere, and
\* the tree that is due for a rebuild is rebuilt as C32_Rebuilt has it
C32_Bounded ==
    ddec.kind = "Dyn" =>
       /\ C27_Nodes[0].freq <= REORDER_LIMIT
       /\ \A i \in 0..(NUM_NODES - 1) : C27_Nodes[i].freq \in 0..65535
       /\ C27_Nodes[0].freq >= REORDER_LIMIT => C32_Rebuilt(ddec.command_tree)

\* one call of increment_for_value, from the caller or from read_entry: at
\* the limit the leaves are halved first and the root is one more than the
\* root of the rebuilt tree, below the limit nothing is halved
C32_Call ==
    (ddec.kind = "Dyn" /\ ddec.runs = <<>> /\ Len(dout') = Len(dout) + 1) =>
       Bind(dout'[Len(dout')], LAMBDA value :
          IF C27_Nodes[0].freq >= REORDER_LIMIT
          THEN /\ \A v \in 0..(NUM_LEAVES - 1) :
                     C32_LeafFreq(ddec'.command_tree, v) =
                        (C32_LeafFreq(ddec.command_tree, v) + 1) \div 2
                           + (IF v = value THEN 1 ELSE 0)
               /\ ddec'.command_tree.nodes[0].freq =
                     rebuild_tree(ddec.command_tree).nodes[0].freq + 1
               /\ ddec'.command_tree.nodes[0].freq < REORDER_LIMIT
          ELSE /\ \A v \in 0..(NUM_LEAVES - 1) :
                     C32_LeafFreq(ddec'.command_tree, v) =
                        C32_LeafFreq(ddec.command_tree, v) + (IF v = value THEN 1 ELSE 0)
               /\ ddec'.command_tree.nodes[0].freq = C27_Nodes[0].freq + 1)

\* C32: the root frequency never exceeds 32768 and no node frequency passes
\* 16 bits; increment_for_value, finding the root frequency at 32768 or
\* more, first rebuilds the tree, every leaf frequency f becoming
\* (f + 1) / 2, none 0, the leaves keeping their relative order in the node
\* array, and only then adds 1 to the root and to the leaf of the value.
C32_RootFrequency == []C32_Bounded /\ [][C32_Call]_vars

\* a tree with the root frequency at the limit has counted one more value:
\* the leaf of 313, counted 32454 times before, now has (32455 + 1) / 2
C32_Witness ==
    /\ ddec.kind = "Dyn"
    /\ dinput.runs = <<<<313, ToReorder>>>>
    /\ dout = <<0>>
    /\ C32_LeafFreq(ddec.command_tree, 313) = (ToReorder + 2) \div 2
    /\ C32_LeafFreq(ddec.command_tree, 0) = 2

\* ------------------------------------------------------------------------
\* C33
\* ------------------------------------------------------------------------
\* ring[i mod N]
C33_At(r, i) == Ring_index(r, i + 2 * r.size)

\* after any pushes the cursor has advanced by their number modulo N, the
\* byte before the cursor is the one pushed last, and so back for as many
\* as the ring holds
C33_Pushed ==
    ddec.kind = "Ring" =>
       /\ ddec.ringbuf.cursor = (dinput.start + Len(dout)) % ddec.ringbuf.size
       /\ \A j \in 1..Min(Len(dout), ddec.ringbuf.size) :
             C33_At(ddec.ringbuf, ddec.ringbuf.cursor - j) = dout[Len(dout) + 1 - j]

\* a copy of n bytes at the offset k: the first byte is the one k + 1 before
\* the cursor, each byte yielded is pushed, and the bytes are the k + 1
\* bytes before the cursor over and over
C33_Copied ==
    (ddec.kind = "Ring" /\ ddec'.calls = ddec.calls + 1 /\ last'.op = "iter_from_offset") =>
       Bind(last'.at % ddec.ringbuf.size, LAMBDA k :
          /\ Len(last'.arg) = last'.n
          /\ last'.arg[1] = C33_At(ddec.ringbuf, ddec.ringbuf.cursor - 1 - k)
          /\ dout' = dout \o last'.arg
          /\ \A i \in 1..last'.n :
                last'.arg[i] =
                   C33_At(ddec.ringbuf, ddec.ringbuf.cursor - 1 - k + ((i - 1) % (k + 1))))

\* C33: for a ring of capacity N, after any pushes ring[(cursor - 1) mod N]
\* is the byte pushed last and the cursor has advanced by the number of
\* pushes modulo N; iter_from_offset(k) first yields
\* ring[(cursor - 1 - k) mod N] and every next() pushes the byte it yields,
\* so that a copy of m > k + 1 bytes at the offset k repeats the last k + 1
\* bytes periodically.
C33_RingHistory == []C33_Pushed /\ [][C33_Copied]_vars

\* A and B were pushed and five bytes copied at the offset 1, across the end
\* of the ring
C33_Witness ==
    /\ ddec.kind = "Ring"
    /\ dinput.start = TEST_RING_BUFFER_SIZE - 2
    /\ last.op = "iter_from_offset"
    /\ last.at = 1
    /\ dout = <<65, 66, 65, 66, 65, 66, 65>>
    /\ ddec.ringbuf.cursor = 5

\* ------------------------------------------------------------------------
\* C34
\* ------------------------------------------------------------------------
\* the six ranges of the offset table: first value, last value, what is
\* taken off the value, extra bits
C34_Ranges ==
    << <<0, 63, 0, 0>>, <<64, 159, 32, 1>>, <<160, 287, 96, 2>>,
       <<288, 383, 192, 3>>, <<384, 479, 288, 4>>, <<480, 511, 384, 5>> >>

\* the ranges the value b falls into
C34_RangesOf(b) == {i \in 1..6 : C34_Ranges[i][1] <= b /\ b <= C34_Ranges[i][2]}

\* the number of code words that begin with a 9-bit value below b: a value
\* of the range i has one code word for every value of its extra bits
RECURSIVE C34_Below(_, _)
C34_Below(b, i) ==
    IF i = 0 THEN 0
    ELSE C34_Below(b, i - 1)
            + (IF b <= C34_Ranges[i][1] THEN 0
               ELSE (Min(b, C34_Ranges[i][2] + 1) - C34_Ranges[i][1]) * Pow2(C34_Ranges[i][4]))

\* C34: for every 9-bit value b decode_offset(b) is the (base, extra_bits)
\* pair of the one range of the offset table that b falls into; OR-ing any
\* value of extra_bits bits into base gives an offset in 0..=4095, and the
\* offset of a code word is the number of code words before it in the order
\* of (b, extra): the mapping is strictly increasing and produces every
\* value 0..=4095 exactly once.
C34_OffsetTable ==
    /\ (ddec.kind = "Off" /\ ddec.pair # <<>>) =>
          /\ \E i \in 1..6 :
                /\ C34_RangesOf(dinput.bits9) = {i}
                /\ ddec.pair = <<(dinput.bits9 - C34_Ranges[i][3]) * Pow2(C34_Ranges[i][4]),
                                 C34_Ranges[i][4]>>
          /\ C34_Below(512, 6) = 4096
    /\ (ddec.kind = "Off" /\ last.op = "read_offset") =>
          Bind(last.at \div Pow2(5 - ddec.pair[2]), LAMBDA extra :
             /\ last.st = "Ok"
             /\ last.n \in 0..4095
             /\ last.n = ddec.pair[1] + extra
             /\ last.n = C34_Below(dinput.bits9, 6) + extra)

\* the offset read from the 9 bits 100100001 and the three bits 101
C34_Witness ==
    /\ ddec.kind = "Off"
    /\ last.op = "read_offset"
    /\ dinput.bits9 = 289
    /\ ddec.pair = <<776, 3>>
    /\ last.at = 22
    /\ last.n = 781

\* ------------------------------------------------------------------------
\* C35
\* ------------------------------------------------------------------------
\* The commands of a stream read by the rule of the claim: a bitmap byte,
\* then the commands of its 8 flags from the lowest, a flag of 1 having one
\* byte and a flag of 0 two; i is the next byte, k the flags of the bitmap
\* byte bm already used, out the bytes the commands before put out.  A
\* command is [src: the bytes of the source up to its end, out: the output
\* up to its end, bitmap: the register after it].
RECURSIVE C35_Commands(_, _, _, _, _)
C35_Commands(bytes, i, k, bm, out) ==
    IF k = 8
    THEN (IF i > Len(bytes) THEN <<>> ELSE C35_Commands(bytes, i + 1, 0, bytes[i], out))
    ELSE IF (bm \div Pow2(k)) % 2 = 1
    THEN (IF i > Len(bytes) THEN <<>>
          ELSE <<[src |-> i, out |-> out + 1, bitmap |-> (bm + 256) \div Pow2(k + 1)]>>
                  \o C35_Commands(bytes, i + 1, k + 1, bm, out + 1))
    ELSE (IF i + 1 > Len(bytes) THEN <<>>
          ELSE Bind((bytes[i + 1] % 16) + 3, LAMBDA count :
               <<[src |-> i + 1, out |-> out + count,
                  bitmap |-> (bm + 256) \div Pow2(k + 1)]>>
                  \o C35_Commands(bytes, i + 2, k + 1, bm, out + count)))

\* the bytes the decoder has taken from its source
C35_Consumed == Len(dinput.bytes) - Len(ddec.reader.inner.buf)

\* C35: each bitmap byte governs exactly 8 consecutive commands, lowest bit
\* first (1: one literal byte, 0: a copy command of two bytes); the next
\* bitmap byte is read only when all 8 flags are used and another output
\* byte is needed; and the position within the bitmap is carried across
\* successful calls of fill_buffer, also when a call ends within a copy:
\* after successful calls for t bytes in all, however split, the decoder
\* has read the source up to the end of the command that gives byte t, its
\* bitmap register holds the flags after that command, and a copy is
\* pending exactly when that command gives more than t bytes.
C35_BitmapRegister ==
    (ddec.kind = "Lz5" /\ dst = "Ok") =>
       IF dout = <<>>
       THEN ddec.bitmap = 1 /\ C35_Consumed = 0 /\ ddec.copy_progress = <<>>
       ELSE Bind(C35_Commands(dinput.bytes, 1, 8, 0, 0), LAMBDA cmds :
            \E c \in 1..Len(cmds) :
               /\ cmds[c].out >= Len(dout)
               /\ c > 1 => cmds[c - 1].out < Len(dout)
               /\ C35_Consumed = cmds[c].src
               /\ ddec.bitmap = cmds[c].bitmap
               /\ (ddec.copy_progress # <<>>) <=> (cmds[c].out > Len(dout))
               /\ ddec.copy_progress # <<>> =>
                     ddec.copy_progress[2] = cmds[c].out - Len(dout))

\* a call ended within the copy of the first command, and by now the
\* decoder works on the flags of the second bitmap byte
C35_Witness ==
    /\ ddec.kind = "Lz5"
    /\ dst = "Ok"
    /\ dresumed
    /\ dinput.bytes[1] = 254
    /\ Len(dout) = 11
    /\ C35_Consumed = 12
    /\ ddec.bitmap = 128

\* ------------------------------------------------------------------------
\* C36
\* ------------------------------------------------------------------------
\* the first call was made
C36_Called == ddec.kind = "Len" /\ (dout # <<>> \/ dst # "Ok")

\* C36: read_code_length returns the 3-bit value v when v < 7, and otherwise
\* 7 plus the number of 1-bits that follow before the first 0-bit; it fails
\* with Decompress("code length overflow") exactly when that sum would
\* exceed 255, and never wraps around.  (The 0-bit is consumed and nothing
\* after it: the next call returns the code length that follows, 5.  A
\* stream that ends before the 0-bit and before the sum exceeds 255 fails
\* with UnexpectedEof.)
C36_CodeLength ==
    C36_Called =>
       /\ \A i \in 1..Len(dout) : dout[i] \in 0..255
       /\ dinput.v < 7 => dout # <<>> /\ dout[1] = dinput.v
       /\ (dinput.v = 7 /\ 7 + dinput.ones <= 255 /\ dinput.zero) =>
             dout # <<>> /\ dout[1] = 7 + dinput.ones
       /\ (dinput.v = 7 /\ 7 + dinput.ones <= 255 /\ ~dinput.zero) =>
             dout = <<>> /\ dst = "Io(UnexpectedEof)"
       /\ (dst = "Decompress(code length overflow)")
             <=> (dinput.v = 7 /\ 7 + dinput.ones > 255)
       /\ dst = "Decompress(code length overflow)" => dout = <<>>
       /\ Len(dout) = 2 => dout[2] = 5

\* 248 1-bits after the 7 gave 255, and the next call the 5 after the 0-bit
C36_Witness ==
    /\ ddec.kind = "Len"
    /\ dinput.ones = 248
    /\ dout = <<255, 5>>

\* 249 1-bits after the 7 gave the overflow
C36_WitnessOverflow ==
    /\ ddec.kind = "Len"
    /\ dinput.ones = 249
    /\ dst = "Decompress(code length overflow)"

====
